---- MODULE Spec2Model ----
(***************************************************************************)
(* Model of the bxgateway block pipeline: the hold protocol of the block   *)
(* processing service (place_hold / queue_block_for_processing /           *)
(* cancel_hold_timeout / _holding_timeout), the handling of decrypted      *)
(* bx-blocks coming from the BDN (_handle_decrypted_block,                 *)
(* start_transaction_recovery) and the collaborators these handlers call.  *)
(*                                                                         *)
(* Time is discrete, and every stored time (a hold's hold_message_time, an *)
(* alarm's due time, a recovery's start time) is kept relative to the       *)
(* current instant, which is 0: Tick moves them all one unit into the past.*)
(* Handlers run to completion (single-threaded event                       *)
(* loop): every handler is one action.    An alarm fires at its due time: *)
(* the clock does not advance while an alarm is due, but messages that     *)
(* arrive at the same instant may be handled before it.                    *)
(***************************************************************************)
EXTENDS Integers, Sequences, FiniteSets, TLC

(* ------------------------------ bounds -------------------------------- *)
NumHashes == 2
MaxSid == 3
MaxBlockTxs == 1
MaxConverterTxs == 2
MaxNodeMsgs == 3
MaxPeerMsgs == 2
NumPublicKeys == 3
MaxOrdering == 4
\* The hashes of one new_block_hashes message, and the block body requests
\* that wait for their answer.
MaxAnnounced == 3
MaxBodyRequests == 1
NumKeys == 2

(* --------------------------- configuration ---------------------------- *)
\* opts.blockchain_block_hold_timeout_s, in clock ticks
blockchain_block_hold_timeout_s == 2
\* opts.blockchain_block_recovery_timeout_s, in clock ticks
blockchain_block_recovery_timeout_s == 5
\* gateway_constants.BLOCK_RECOVERY_RECOVERY_INTERVAL_S = [0.1, 0.5, 1, 2, 5],
\* in clock ticks of one second, a delay below one tick taking one tick
BLOCK_RECOVERY_RECOVERY_INTERVAL_S == <<1, 1, 1, 2, 5>>
BLOCK_RECOVERY_MAX_RETRY_ATTEMPTS == Len(BLOCK_RECOVERY_RECOVERY_INTERVAL_S)
\* TxMessage.EMPTY_TX_VAL: a tx message without contents
EMPTY_TX_VAL == 0
\* constants.NULL_TX_SID: "no short id"
NULL_TX_SID == 0
\* node.network_num of the gateway
network_num == 1

\* Block hashes.  Spec follows the pipeline of one block, the block with hash 1, through every
\* handler; SpecHolds follows the hold protocol alone for all of Hashes.
Hashes == 1..NumHashes
BlockHashes == {1}
Sids == 1..MaxSid
\* A transaction is identified by its contents c; its hash (txid) is c too.
TxHashes == 1..MaxSid

\* the btc short id placeholder byte in the body of a bx-block
BTC_SHORT_ID_INDICATOR == 255

(* ConnectionType, and the connection pool: one connection of each type. *)
RELAY_BLOCK == "RELAY_BLOCK"
RELAY_TRANSACTION == "RELAY_TRANSACTION"
GATEWAY == "GATEWAY"
BLOCKCHAIN_NODE == "BLOCKCHAIN_NODE"
ConnectionPool == {RELAY_BLOCK, RELAY_TRANSACTION, GATEWAY, BLOCKCHAIN_NODE}
NoConn == "None"

\* "None" for a block message / a bx-block
NoMsg == [block_hash |-> 0, txns |-> <<>>]
\* "None" for an alarm reference
NoAlarm == 0

\* time.time(): the current instant
now == 0

\* EthNodeConnectionProtocol.__init__: no new block is pending, none is ready,
\* no block bodies have been requested; no block is marked for cleanup.
EthNodeConnectionProtocol ==
  [_pending_new_blocks_parts |-> <<>>, _ready_new_blocks |-> <<>>,
   _block_bodies_requests |-> <<>>, marked_for_cleanup |-> {}]

VARIABLES
  holds,          \* BlockProcessingService._holds.contents
  alarm_queue,    \* node.alarm_queue: registered alarms, in registration order
  blocks_seen,    \* node.blocks_seen.contents
  block_queue,    \* node.block_queuing_service
  recovery,       \* node.block_recovery_service: records by block hash
  tx_service,     \* node.get_tx_service()
  in_progress_blocks,          \* node.in_progress_blocks: ciphertext and key by hash
  recovered_blocks,            \* block_recovery_service.recovered_blocks
  recovery_attempts_by_block,  \* block_recovery_service.recovery_attempts_by_block
  recovery_start_time,         \* recovery_start_time of the recovery records
  node_msg_queue,        \* node.node_msg_queue: messages waiting for the node connection
  node_connection,       \* node.node_conn: the established blockchain connection
  btc_connection,        \* the BtcNodeConnection: state and output buffer
  discovery_connection,  \* the EthNodeDiscoveryConnection
  remote_public_key,     \* the public key of the Ethereum node, as the node records it
  gateway_nodes,         \* two gateways: connections, connection_pool, enqueue_disconnect calls
  hellos,                \* the GatewayHelloMessages on their way to a connection
  eth_protocol,          \* the EthNodeConnectionProtocol: new blocks announced by hash
  call,           \* the handler that ran last, with its arguments
  out             \* the calls that handler made on its collaborators, in order

vars == <<holds, alarm_queue, blocks_seen, block_queue, recovery, tx_service,
          in_progress_blocks, recovered_blocks, recovery_attempts_by_block,
          recovery_start_time, node_msg_queue, node_connection, btc_connection,
          discovery_connection, remote_public_key, gateway_nodes, hellos, eth_protocol,
          call, out>>

\* The state of the connections to the blockchain node.
conn_vars == <<node_msg_queue, node_connection, btc_connection, discovery_connection,
               remote_public_key, gateway_nodes, hellos, eth_protocol>>

\* The state of the block processing service and its collaborators.
service_vars == <<holds, blocks_seen, block_queue, recovery, tx_service,
                  in_progress_blocks, recovered_blocks, recovery_attempts_by_block,
                  recovery_start_time>>

(* ------------------------------ helpers ------------------------------- *)
Range(s) == {s[i] : i \in 1..Len(s)}

RemoveKey(f, k) == [x \in (DOMAIN f) \ {k} |-> f[x]]

SetMin(S) == CHOOSE x \in S : \A y \in S : x <= y

SeqsUpTo(S, n) == UNION {[1..k -> S] : k \in 0..n}

\* The state the service methods read and write, as one record.
St ==
  [holds |-> holds, alarm_queue |-> alarm_queue, blocks_seen |-> blocks_seen,
   block_queue |-> block_queue, recovery |-> recovery, tx_service |-> tx_service,
   in_progress_blocks |-> in_progress_blocks, recovered_blocks |-> recovered_blocks,
   recovery_attempts_by_block |-> recovery_attempts_by_block,
   recovery_start_time |-> recovery_start_time,
   node_msg_queue |-> node_msg_queue, node_connection |-> node_connection,
   btc_connection |-> btc_connection, discovery_connection |-> discovery_connection,
   remote_public_key |-> remote_public_key,
   gateway_nodes |-> gateway_nodes, hellos |-> hellos, eth_protocol |-> eth_protocol,
   out |-> <<>>]

Commit(S) ==
  \E T \in {S} :
    /\ holds' = T.holds
    /\ alarm_queue' = T.alarm_queue
    /\ blocks_seen' = T.blocks_seen
    /\ block_queue' = T.block_queue
    /\ recovery' = T.recovery
    /\ tx_service' = T.tx_service
    /\ in_progress_blocks' = T.in_progress_blocks
    /\ recovered_blocks' = T.recovered_blocks
    /\ recovery_attempts_by_block' = T.recovery_attempts_by_block
    /\ recovery_start_time' = T.recovery_start_time
    /\ node_msg_queue' = T.node_msg_queue
    /\ node_connection' = T.node_connection
    /\ btc_connection' = T.btc_connection
    /\ discovery_connection' = T.discovery_connection
    /\ remote_public_key' = T.remote_public_key
    /\ gateway_nodes' = T.gateway_nodes
    /\ hellos' = T.hellos
    /\ eth_protocol' = T.eth_protocol
    /\ out' = T.out

\* A local variable: Op applied to the value v, which is computed once.
Bind(v, Op(_)) == CHOOSE r \in {Op(x) : x \in {v}} : TRUE

Emit(S, e) == [S EXCEPT !.out = Append(@, e)]


(* ------------------------- node collaborators ------------------------- *)
\* node.broadcast(msg, broadcasting_conn, prepend_to_queue, connection_types):
\* the message is queued on every connection of one of the types, except the
\* connection it came from.
Recipients(broadcasting_conn, connection_types) ==
  {c \in ConnectionPool : c \in connection_types /\ c # broadcasting_conn}

broadcast(S, msg, broadcasting_conn, prepend_to_queue, connection_types) ==
  Emit(S, [op |-> "broadcast", msg |-> msg,
           to |-> Recipients(broadcasting_conn, connection_types),
           prepend_to_queue |-> prepend_to_queue])

BlockHoldingMessage(block_hash) ==
  [type |-> "blockhold", block_hash |-> block_hash, network_num |-> network_num]

GetTxsMessage(short_ids) == [type |-> "gettxs", short_ids |-> short_ids]

(* -------------------------- transaction service ----------------------- *)
\* tx_service = [sid_to_hash: short id -> tx hash, contents: tx hash -> contents]
has_short_id(txs, sid) == sid \in DOMAIN txs.sid_to_hash

has_transaction_contents(txs, tx_hash) == tx_hash \in DOMAIN txs.contents

get_short_ids(txs, tx_hash) == {s \in DOMAIN txs.sid_to_hash : txs.sid_to_hash[s] = tx_hash}

\* One short id of the hash (the first of its set), or NULL_TX_SID.
get_short_id(txs, tx_hash) ==
  IF get_short_ids(txs, tx_hash) = {} THEN NULL_TX_SID ELSE SetMin(get_short_ids(txs, tx_hash))

\* The short ids with no known hash, in order.
missing_sids(txs, short_ids) == SelectSeq(short_ids, LAMBDA s : ~has_short_id(txs, s))

RECURSIVE missing_hashes(_, _)
\* The hashes of the short ids whose hash is known and contents are not, in order.
missing_hashes(txs, short_ids) ==
  IF short_ids = <<>> THEN <<>>
  ELSE LET s == Head(short_ids)
           rest == missing_hashes(txs, Tail(short_ids))
       IN IF has_short_id(txs, s) /\ ~has_transaction_contents(txs, txs.sid_to_hash[s])
          THEN <<txs.sid_to_hash[s]>> \o rest
          ELSE rest

get_missing_transactions(txs, short_ids) ==
  [has_missing |-> missing_sids(txs, short_ids) # <<>> \/ missing_hashes(txs, short_ids) # <<>>,
   unknown_tx_sids |-> missing_sids(txs, short_ids),
   unknown_tx_hashes |-> missing_hashes(txs, short_ids)]

assign_short_id(txs, tx_hash, short_id) ==
  [txs EXCEPT !.sid_to_hash =
     [s \in DOMAIN @ \cup {short_id} |-> IF s = short_id THEN tx_hash ELSE @[s]]]

\* First writer wins: contents already known are kept.
set_transaction_contents(txs, tx_hash, tx_contents) ==
  IF has_transaction_contents(txs, tx_hash) THEN txs
  ELSE [txs EXCEPT !.contents =
          [t \in DOMAIN @ \cup {tx_hash} |-> IF t = tx_hash THEN tx_contents ELSE @[t]]]

(* --------------------------- message converter ------------------------ *)
\* A block message is [block_hash, txns]: the header and the transactions.
\* A bx-block is [block_hash, body, short_ids]: the header, then the body pieces
\* (a transaction or the short id indicator), then the short ids section.
RECURSIVE compress_txns(_, _)
compress_txns(txns, txs) ==
  IF txns = <<>> THEN [body |-> <<>>, short_ids |-> <<>>]
  ELSE LET tx == Head(txns)
           short_id == get_short_id(txs, tx)
           rest == compress_txns(Tail(txns), txs)
       IN IF short_id = NULL_TX_SID
          THEN [body |-> <<tx>> \o rest.body, short_ids |-> rest.short_ids]
          ELSE [body |-> <<BTC_SHORT_ID_INDICATOR>> \o rest.body,
                short_ids |-> <<short_id>> \o rest.short_ids]

block_to_bx_block(block_msg, txs) ==
  LET c == compress_txns(block_msg.txns, txs)
  IN [block_hash |-> block_msg.block_hash, body |-> c.body, short_ids |-> c.short_ids]

RECURSIVE walk_body(_, _, _, _)
\* The loop of parse_bx_block_transactions: the pieces of the block, or an error
\* when an indicator has no short id left.
walk_body(body, short_ids, short_tx_index, txs) ==
  IF body = <<>> THEN [error |-> FALSE, pieces |-> <<>>]
  ELSE IF Head(body) = BTC_SHORT_ID_INDICATOR
       THEN IF short_tx_index > Len(short_ids)
            THEN [error |-> TRUE, pieces |-> <<>>]
            ELSE LET rest == walk_body(Tail(body), short_ids, short_tx_index + 1, txs)
                     tx == txs.contents[txs.sid_to_hash[short_ids[short_tx_index]]]
                 IN [error |-> rest.error, pieces |-> <<tx>> \o rest.pieces]
       ELSE LET rest == walk_body(Tail(body), short_ids, short_tx_index, txs)
            IN [error |-> rest.error, pieces |-> <<Head(body)>> \o rest.pieces]

parse_bx_block_transactions(bx_block, txs) ==
  Bind(get_missing_transactions(txs, bx_block.short_ids), LAMBDA m :
    IF m.has_missing
    THEN [error |-> FALSE, unknown_tx_sids |-> m.unknown_tx_sids,
          unknown_tx_hashes |-> m.unknown_tx_hashes, pieces |-> <<>>]
    ELSE Bind(walk_body(bx_block.body, bx_block.short_ids, 1, txs), LAMBDA w :
           [error |-> w.error, unknown_tx_sids |-> <<>>, unknown_tx_hashes |-> <<>>,
            pieces |-> w.pieces]))

\* error: MessageConversionError was raised; block_message = NoMsg: None.
bx_block_to_block(bx_block, txs) ==
  Bind(parse_bx_block_transactions(bx_block, txs), LAMBDA p :
    [error |-> p.error,
     block_message |-> IF ~p.error /\ p.unknown_tx_sids = <<>> /\ p.unknown_tx_hashes = <<>>
                       THEN [block_hash |-> bx_block.block_hash, txns |-> p.pieces]
                       ELSE NoMsg,
     block_hash |-> bx_block.block_hash,
     short_ids |-> bx_block.short_ids,
     unknown_tx_sids |-> p.unknown_tx_sids,
     unknown_tx_hashes |-> p.unknown_tx_hashes])


(* ---------------------- block recovery service ------------------------ *)
\* f with the key k bound to v.
SetKey(f, k, v) == [x \in DOMAIN f \cup {k} |-> IF x = k THEN v ELSE f[x]]

\* The elements of a set of numbers, in increasing order.
RECURSIVE SetToSeq(_)
SetToSeq(T) == IF T = {} THEN <<>> ELSE <<SetMin(T)>> \o SetToSeq(T \ {SetMin(T)})

\* The service lets go of the record of the block: the alarms registered with
\* it keep the record as it was.
detach(S, block_hash) ==
  IF block_hash \notin DOMAIN S.recovery THEN S
  ELSE [S EXCEPT !.alarm_queue =
          [k \in 1..Len(@) |->
             IF /\ @[k].fn = "_trigger_recovery_retry"
                /\ @[k].block_hash = block_hash
                /\ ~@[k].detached
             THEN [@[k] EXCEPT
                     !.detached = TRUE,
                     !.unknown_short_ids = S.recovery[block_hash].unknown_short_ids,
                     !.unknown_transaction_hashes =
                        S.recovery[block_hash].unknown_transaction_hashes]
             ELSE @[k]]]

add_block(S, bx_block, block_hash, unknown_tx_sids, unknown_tx_hashes) ==
  Emit([detach(S, block_hash) EXCEPT
          !.recovery =
             SetKey(@, block_hash,
                    [bx_block |-> bx_block,
                     unknown_short_ids |-> Range(unknown_tx_sids),
                     unknown_transaction_hashes |-> Range(unknown_tx_hashes)]),
          !.recovery_attempts_by_block = SetKey(@, block_hash, 0),
          !.recovery_start_time = SetKey(@, block_hash, now)],
       [op |-> "add_block", block_hash |-> block_hash,
        unknown_tx_sids |-> unknown_tx_sids, unknown_tx_hashes |-> unknown_tx_hashes])

cancel_recovery_for_block(S, block_hash) ==
  Emit([detach(S, block_hash) EXCEPT
          !.recovery = RemoveKey(@, block_hash),
          !.recovery_attempts_by_block = RemoveKey(@, block_hash),
          !.recovery_start_time = RemoveKey(@, block_hash)],
       [op |-> "cancel_recovery_for_block", block_hash |-> block_hash])

\* A record with nothing unknown left is recovered.
is_block_recovered(info) ==
  info.unknown_short_ids = {} /\ info.unknown_transaction_hashes = {}

\* The bx-blocks of the records that the update of the records in hit brought
\* to recovered, appended to recovered_blocks.
on_recovered(S, hit, rec) ==
  LET done == SetToSeq({h \in hit : is_block_recovered(rec[h])})
  IN [S EXCEPT !.recovery = rec,
               !.recovered_blocks = @ \o [i \in 1..Len(done) |-> rec[done[i]].bx_block]]

\* check_missing_sid returns missing_sid and leaves the state check_missing_sid.
missing_sid(S, sid) ==
  \E h \in DOMAIN S.recovery : sid \in S.recovery[h].unknown_short_ids

check_missing_sid(S, sid) ==
  LET hit == {h \in DOMAIN S.recovery : sid \in S.recovery[h].unknown_short_ids}
      rec == [h \in DOMAIN S.recovery |->
                IF h \in hit THEN [S.recovery[h] EXCEPT !.unknown_short_ids = @ \ {sid}]
                ELSE S.recovery[h]]
  IN Emit(on_recovered(S, hit, rec), [op |-> "check_missing_sid", sid |-> sid])

missing_tx_hash(S, tx_hash) ==
  \E h \in DOMAIN S.recovery : tx_hash \in S.recovery[h].unknown_transaction_hashes

check_missing_tx_hash(S, tx_hash) ==
  LET hit == {h \in DOMAIN S.recovery : tx_hash \in S.recovery[h].unknown_transaction_hashes}
      rec == [h \in DOMAIN S.recovery |->
                IF h \in hit
                THEN [S.recovery[h] EXCEPT !.unknown_transaction_hashes = @ \ {tx_hash}]
                ELSE S.recovery[h]]
  IN Emit(on_recovered(S, hit, rec), [op |-> "check_missing_tx_hash", tx_hash |-> tx_hash])

get_blocks_awaiting_recovery(S) == SetToSeq(DOMAIN S.recovery)

clean_up_recovered_blocks(S) == [S EXCEPT !.recovered_blocks = <<>>]

(* ----------------------- block queuing service ------------------------ *)
InQueue(q, block_hash) == \E i \in 1..Len(q) : q[i].block_hash = block_hash

push(S, block_hash, block_msg, waiting_for_recovery) ==
  Emit([S EXCEPT !.block_queue =
          Append(@, [block_hash |-> block_hash, block_msg |-> block_msg,
                     waiting_for_recovery |-> waiting_for_recovery])],
       [op |-> "push", block_hash |-> block_hash, block_msg |-> block_msg,
        waiting_for_recovery |-> waiting_for_recovery])

update_recovered_block(S, block_hash, block_msg) ==
  Emit([S EXCEPT !.block_queue =
          [i \in 1..Len(@) |->
             IF @[i].block_hash = block_hash
             THEN [block_hash |-> block_hash, block_msg |-> block_msg,
                   waiting_for_recovery |-> FALSE]
             ELSE @[i]]],
       [op |-> "update_recovered_block", block_hash |-> block_hash, block_msg |-> block_msg])

remove(S, block_hash) ==
  Emit([S EXCEPT !.block_queue = SelectSeq(@, LAMBDA e : e.block_hash # block_hash)],
       [op |-> "remove", block_hash |-> block_hash])

(* -------------------------- neutrality service ------------------------ *)
propagate_block_to_network(S, bx_block, connection) ==
  Emit(S,
       [op |-> "propagate_block_to_network", bx_block |-> bx_block,
        connection |-> connection])

(* ----------------------------- alarm queue ---------------------------- *)
\* A fresh alarm object: no registered alarm and no hold refers to its id.
NewAlarmId(S) ==
  SetMin({i \in 1..(Len(S.alarm_queue) + Cardinality(DOMAIN S.holds) + 1) :
            /\ \A k \in 1..Len(S.alarm_queue) : S.alarm_queue[k].id # i
            /\ \A h \in DOMAIN S.holds : S.holds[h].alarm # i})

\* An alarm of _holding_timeout carries the hold; an alarm of
\* _trigger_recovery_retry carries the recovery record of the block: the one
\* the recovery service has, or its detached copy once the service dropped it.
register_alarm(S, fire_delay, fn, block_hash, hold) ==
  [S EXCEPT !.alarm_queue =
     Append(@, [id |-> NewAlarmId(S), due |-> now + fire_delay, fn |-> fn,
                block_hash |-> block_hash, block_message |-> hold.block_message,
                connection |-> hold.connection,
                detached |-> FALSE, unknown_short_ids |-> {},
                unknown_transaction_hashes |-> {}])]

\* alarm_queue.register_approx_alarm: no new alarm when one of the same
\* callback is due within slop of the new due time.
register_approx_alarm(S, fire_delay, slop, fn, block_hash) ==
  IF \E k \in 1..Len(S.alarm_queue) :
        /\ S.alarm_queue[k].fn = fn
        /\ now + fire_delay - slop <= S.alarm_queue[k].due
        /\ S.alarm_queue[k].due <= now + fire_delay + slop
  THEN S
  ELSE register_alarm(S, fire_delay, fn, block_hash,
                      [block_message |-> NoMsg, connection |-> NoConn])

unregister_alarm(S, alarm) ==
  [S EXCEPT !.alarm_queue = SelectSeq(@, LAMBDA a : a.id # alarm)]

(* ----------------------- BlockProcessingService ----------------------- *)
BlockHold(hold_message_time, holding_connection) ==
  [hold_message_time |-> hold_message_time, holding_connection |-> holding_connection,
   block_message |-> NoMsg, alarm |-> NoAlarm, connection |-> NoConn]

_process_and_broadcast_compressed_block(S, bx_block, connection, block_hash) ==
  Emit(propagate_block_to_network(S, bx_block, connection),
       [op |-> "track_seen_short_ids_delayed", block_hash |-> block_hash,
        short_ids |-> bx_block.short_ids])

\* block_to_bx_block of this converter raises no MessageConversionError.
_process_and_broadcast_block(S, block_message, connection) ==
  _process_and_broadcast_compressed_block(
    S, block_to_bx_block(block_message, S.tx_service), connection, block_message.block_hash)

\* place_hold without the source connection excluded from the broadcast.
place_hold_echo(S, block_hash, connection) ==
  IF block_hash \in S.blocks_seen THEN S
  ELSE IF block_hash \notin DOMAIN S.holds
       THEN broadcast(
              [S EXCEPT !.holds = [h \in DOMAIN @ \cup {block_hash} |->
                                     IF h = block_hash THEN BlockHold(now, connection) ELSE @[h]]],
              BlockHoldingMessage(block_hash), NoConn, FALSE, {RELAY_BLOCK, GATEWAY})
       ELSE S

\* place_hold without the check for an existing hold.
place_hold_again(S, block_hash, connection) ==
  IF block_hash \in S.blocks_seen THEN S
  ELSE broadcast(
         [S EXCEPT !.holds = [h \in DOMAIN @ \cup {block_hash} |->
                                IF h = block_hash THEN BlockHold(now, connection) ELSE @[h]]],
         BlockHoldingMessage(block_hash), connection, FALSE, {RELAY_BLOCK, GATEWAY})

\* place_hold without the blocks_seen check.
place_hold_seen(S, block_hash, connection) ==
  IF block_hash \notin DOMAIN S.holds
  THEN broadcast(
         [S EXCEPT !.holds = [h \in DOMAIN @ \cup {block_hash} |->
                                IF h = block_hash THEN BlockHold(now, connection) ELSE @[h]]],
         BlockHoldingMessage(block_hash), connection, FALSE, {RELAY_BLOCK, GATEWAY})
  ELSE S

place_hold(S, block_hash, connection) ==
  IF block_hash \in S.blocks_seen THEN S
  ELSE IF block_hash \notin DOMAIN S.holds
       THEN broadcast(
              [S EXCEPT !.holds = [h \in DOMAIN @ \cup {block_hash} |->
                                     IF h = block_hash THEN BlockHold(now, connection) ELSE @[h]]],
              BlockHoldingMessage(block_hash), connection, FALSE, {RELAY_BLOCK, GATEWAY})
       ELSE S

\* queue_block_for_processing without the check that the hold has no alarm yet.
queue_block_for_processing_rearm(S, block_message, connection) ==
  LET block_hash == block_message.block_hash IN
  IF block_hash \in DOMAIN S.holds
  THEN LET hold == S.holds[block_hash]
           held == [hold EXCEPT !.block_message = block_message, !.connection = connection]
           S1 == register_alarm(S, blockchain_block_hold_timeout_s, "_holding_timeout",
                                block_hash, held)
       IN [S1 EXCEPT !.holds[block_hash] = [held EXCEPT !.alarm = NewAlarmId(S)]]
  ELSE _process_and_broadcast_block(
         broadcast(S, BlockHoldingMessage(block_hash), connection, TRUE, {RELAY_BLOCK, GATEWAY}),
         block_message, connection)

\* queue_block_for_processing with the block propagated before the broadcast.
queue_block_for_processing_late(S, block_message, connection) ==
  LET block_hash == block_message.block_hash IN
  IF block_hash \in DOMAIN S.holds
  THEN LET hold == S.holds[block_hash]
           held == [hold EXCEPT !.block_message = block_message, !.connection = connection]
           S1 == register_alarm(S, blockchain_block_hold_timeout_s, "_holding_timeout",
                                block_hash, held)
       IN IF hold.alarm = NoAlarm
          THEN [S1 EXCEPT !.holds[block_hash] = [held EXCEPT !.alarm = NewAlarmId(S)]]
          ELSE S
  ELSE broadcast(_process_and_broadcast_block(S, block_message, connection),
                 BlockHoldingMessage(block_hash), connection, TRUE, {RELAY_BLOCK, GATEWAY})

queue_block_for_processing(S, block_message, connection) ==
  LET block_hash == block_message.block_hash IN
  IF block_hash \in DOMAIN S.holds
  THEN LET hold == S.holds[block_hash]
           held == [hold EXCEPT !.block_message = block_message, !.connection = connection]
           S1 == register_alarm(S, blockchain_block_hold_timeout_s, "_holding_timeout",
                                block_hash, held)
       IN IF hold.alarm = NoAlarm
          THEN [S1 EXCEPT !.holds[block_hash] = [held EXCEPT !.alarm = NewAlarmId(S)]]
          ELSE S
  ELSE _process_and_broadcast_block(
         broadcast(S, BlockHoldingMessage(block_hash), connection, TRUE, {RELAY_BLOCK, GATEWAY}),
         block_message, connection)

cancel_hold_timeout(S, block_hash, connection) ==
  IF block_hash \in DOMAIN S.holds
  THEN LET hold == S.holds[block_hash]
           S1 == IF hold.alarm # NoAlarm THEN unregister_alarm(S, hold.alarm) ELSE S
       IN [S1 EXCEPT !.holds = RemoveKey(@, block_hash)]
  ELSE S

\* _holding_timeout that drops the held block.
_holding_timeout_drop(S, block_hash, hold) == S

_holding_timeout(S, block_hash, hold) ==
  _process_and_broadcast_block(S, hold.block_message, hold.connection)

RECURSIVE sids_of_hashes(_, _)
sids_of_hashes(txs, tx_hashes) ==
  IF tx_hashes = <<>> THEN <<>>
  ELSE <<get_short_id(txs, Head(tx_hashes))>> \o sids_of_hashes(txs, Tail(tx_hashes))

\* start_transaction_recovery that asks for the unknown short ids only.
start_transaction_recovery_sids(S, unknown_sids, unknown_hashes, block_hash, connection) ==
  Emit(S, [op |-> "broadcast",
           msg |-> GetTxsMessage(unknown_sids),
           to |-> Recipients(NoConn, {RELAY_TRANSACTION}),
           prepend_to_queue |-> FALSE])

start_transaction_recovery(S, unknown_sids, unknown_hashes, block_hash, connection) ==
  Emit(S, [op |-> "broadcast",
           msg |-> GetTxsMessage(unknown_sids \o sids_of_hashes(S.tx_service, unknown_hashes)),
           to |-> Recipients(NoConn, {RELAY_TRANSACTION}),
           prepend_to_queue |-> FALSE])

\* _handle_decrypted_block without the blocks_seen check.
_handle_decrypted_block_unseen(S, bx_block, connection, recovered, node_conn) ==
  Bind(bx_block_to_block(bx_block, S.tx_service), LAMBDA d :
  Bind(cancel_hold_timeout(S, d.block_hash, connection), LAMBDA S1 :
  LET block_hash == d.block_hash
  IN IF ~node_conn THEN S
     ELSE IF d.error
     THEN Emit(S, [op |-> "on_block_cleaned_up", block_hash |-> block_hash])
     ELSE IF d.block_message # NoMsg
     THEN LET S2 == IF recovered \/ InQueue(S1.block_queue, block_hash)
                    THEN update_recovered_block(S1, block_hash, d.block_message)
                    ELSE push(S1, block_hash, d.block_message, FALSE)
              S3 == cancel_recovery_for_block(S2, block_hash)
              S4 == [S3 EXCEPT !.blocks_seen = @ \cup {block_hash}]
          IN Emit(S4, [op |-> "track_seen_short_ids", block_hash |-> block_hash,
                       short_ids |-> d.short_ids])
     ELSE IF InQueue(S1.block_queue, block_hash) /\ ~recovered
     THEN S1
     ELSE LET S2 == add_block(S1, bx_block, block_hash, d.unknown_tx_sids, d.unknown_tx_hashes)
              S3 == start_transaction_recovery(S2, d.unknown_tx_sids, d.unknown_tx_hashes,
                                               block_hash, connection)
          IN IF recovered THEN S3 ELSE push(S3, block_hash, NoMsg, TRUE)))

\* _handle_decrypted_block that handles an incomplete copy of a queued block
\* like the first one.
_handle_decrypted_block_requeue(S, bx_block, connection, recovered, node_conn) ==
  Bind(bx_block_to_block(bx_block, S.tx_service), LAMBDA d :
  Bind(cancel_hold_timeout(S, d.block_hash, connection), LAMBDA S1 :
  LET block_hash == d.block_hash
  IN IF ~node_conn THEN S
     ELSE IF d.error
     THEN Emit(S, [op |-> "on_block_cleaned_up", block_hash |-> block_hash])
     ELSE IF block_hash \in S1.blocks_seen
     THEN Emit(S1, [op |-> "track_seen_short_ids", block_hash |-> block_hash,
                    short_ids |-> d.short_ids])
     ELSE IF d.block_message # NoMsg
     THEN LET S2 == IF recovered \/ InQueue(S1.block_queue, block_hash)
                    THEN update_recovered_block(S1, block_hash, d.block_message)
                    ELSE push(S1, block_hash, d.block_message, FALSE)
              S3 == cancel_recovery_for_block(S2, block_hash)
              S4 == [S3 EXCEPT !.blocks_seen = @ \cup {block_hash}]
          IN Emit(S4, [op |-> "track_seen_short_ids", block_hash |-> block_hash,
                       short_ids |-> d.short_ids])
     ELSE LET S2 == add_block(S1, bx_block, block_hash, d.unknown_tx_sids, d.unknown_tx_hashes)
              S3 == start_transaction_recovery(S2, d.unknown_tx_sids, d.unknown_tx_hashes,
                                               block_hash, connection)
          IN IF recovered THEN S3 ELSE push(S3, block_hash, NoMsg, TRUE)))

\* node_conn: the node has a connection to the blockchain node
_handle_decrypted_block(S, bx_block, connection, recovered, node_conn) ==
  Bind(bx_block_to_block(bx_block, S.tx_service), LAMBDA d :
  Bind(cancel_hold_timeout(S, d.block_hash, connection), LAMBDA S1 :
  LET block_hash == d.block_hash
  IN IF ~node_conn THEN S
     ELSE IF d.error
     THEN Emit(S, [op |-> "on_block_cleaned_up", block_hash |-> block_hash])
     ELSE IF block_hash \in S1.blocks_seen
     THEN Emit(S1, [op |-> "track_seen_short_ids", block_hash |-> block_hash,
                    short_ids |-> d.short_ids])
     ELSE IF d.block_message # NoMsg
     THEN LET S2 == IF recovered \/ InQueue(S1.block_queue, block_hash)
                    THEN update_recovered_block(S1, block_hash, d.block_message)
                    ELSE push(S1, block_hash, d.block_message, FALSE)
              S3 == cancel_recovery_for_block(S2, block_hash)
              S4 == [S3 EXCEPT !.blocks_seen = @ \cup {block_hash}]
          IN Emit(S4, [op |-> "track_seen_short_ids", block_hash |-> block_hash,
                       short_ids |-> d.short_ids])
     ELSE IF InQueue(S1.block_queue, block_hash) /\ ~recovered
     THEN S1
     ELSE LET S2 == add_block(S1, bx_block, block_hash, d.unknown_tx_sids, d.unknown_tx_hashes)
              S3 == start_transaction_recovery(S2, d.unknown_tx_sids, d.unknown_tx_hashes,
                                               block_hash, connection)
          IN IF recovered THEN S3 ELSE push(S3, block_hash, NoMsg, TRUE)))

(* ------------------- in-progress blocks (encryption) ------------------ *)
\* A ciphertext is a payload sealed under a key; it opens under that key only.
NoKey == 0
NoPayload == [block_hash |-> 0, body |-> <<>>, short_ids |-> <<>>]
NoCiphertext == [key |-> NoKey, payload |-> NoPayload]
Keys == 1..NumKeys
encrypt(key, payload) == [key |-> key, payload |-> payload]
\* crypto.double_sha256 of a ciphertext: collision free, one hash per key since
\* the relays of this model seal one payload.
double_sha256(cipherblob) == NumKeys + 1 - cipherblob.key
EncHashes == 1..NumKeys

\* EncryptionCacheItem.decrypt: the payload, or None under a wrong key.
decrypt(item) ==
  IF item.ciphertext # NoCiphertext /\ item.key = item.ciphertext.key
  THEN item.ciphertext.payload ELSE NoPayload

has_encryption_key_for_hash(S, hash_key) ==
  hash_key \in DOMAIN S.in_progress_blocks /\ S.in_progress_blocks[hash_key].key # NoKey

has_ciphertext_for_hash(S, hash_key) ==
  /\ hash_key \in DOMAIN S.in_progress_blocks
  /\ S.in_progress_blocks[hash_key].ciphertext # NoCiphertext

add_ciphertext(S, hash_key, ciphertext) ==
  [S EXCEPT !.in_progress_blocks =
     SetKey(@, hash_key,
            [ciphertext |-> ciphertext,
             key |-> IF hash_key \in DOMAIN @ THEN @[hash_key].key ELSE NoKey])]

add_key(S, hash_key, encryption_key) ==
  [S EXCEPT !.in_progress_blocks =
     SetKey(@, hash_key,
            [ciphertext |-> IF hash_key \in DOMAIN @ THEN @[hash_key].ciphertext
                            ELSE NoCiphertext,
             key |-> encryption_key])]

\* The pair that opens is consumed: its entry is removed. The half of a pair
\* that does not open is discarded, and the cache waits for the next one.
consume(S, hash_key) ==
  [S EXCEPT !.in_progress_blocks = RemoveKey(@, hash_key)]

BlockReceivedMessage(block_hash) == [type |-> "blockrecv", block_hash |-> block_hash]
KeyMessage(block_hash, key) == [type |-> "key", block_hash |-> block_hash, key |-> key]

add_block_event(S, block_hash, event) ==
  Emit(S, [op |-> "add_block_event", block_hash |-> block_hash, event |-> event])

\* process_block_broadcast that does not compare the declared hash with the
\* hash of the ciphertext.
process_block_broadcast_unchecked(S, msg, connection, node_conn) ==
  IF ~msg.is_encrypted
  THEN _handle_decrypted_block(S, msg.blob, connection, FALSE, node_conn)
  ELSE IF has_encryption_key_for_hash(S, msg.block_hash)
  THEN LET S1 == add_ciphertext(S, msg.block_hash, msg.blob)
           block == decrypt(S1.in_progress_blocks[msg.block_hash])
           S2 == consume(S1, msg.block_hash)
       IN IF block # NoPayload
          THEN _handle_decrypted_block(
                 add_block_event(S2, msg.block_hash, "ENC_BLOCK_DECRYPTED_SUCCESS"),
                 block, connection, FALSE, node_conn)
          ELSE add_block_event(S, msg.block_hash, "ENC_BLOCK_DECRYPTION_ERROR")
  ELSE broadcast(add_ciphertext(S, msg.block_hash, msg.blob),
                 BlockReceivedMessage(msg.block_hash), NoConn, FALSE, {GATEWAY})

\* msg: [block_hash, is_encrypted, blob]; the blob of an unencrypted message is
\* the bx-block.
process_block_broadcast(S, msg, connection, node_conn) ==
  IF ~msg.is_encrypted
  THEN _handle_decrypted_block(S, msg.blob, connection, FALSE, node_conn)
  ELSE IF msg.block_hash # double_sha256(msg.blob)
  THEN S
  ELSE IF has_encryption_key_for_hash(S, msg.block_hash)
  THEN LET S1 == add_ciphertext(S, msg.block_hash, msg.blob)
           block == decrypt(S1.in_progress_blocks[msg.block_hash])
           S2 == consume(S1, msg.block_hash)
       IN IF block # NoPayload
          THEN _handle_decrypted_block(
                 add_block_event(S2, msg.block_hash, "ENC_BLOCK_DECRYPTED_SUCCESS"),
                 block, connection, FALSE, node_conn)
          ELSE add_block_event(S, msg.block_hash, "ENC_BLOCK_DECRYPTION_ERROR")
  ELSE broadcast(add_ciphertext(S, msg.block_hash, msg.blob),
                 BlockReceivedMessage(msg.block_hash), NoConn, FALSE, {GATEWAY})

\* process_block_key that drops a key arriving before its ciphertext.
process_block_key_drop(S, msg, connection, node_conn) ==
  IF has_encryption_key_for_hash(S, msg.block_hash)
  THEN S
  ELSE LET S3 ==
         IF has_ciphertext_for_hash(S, msg.block_hash)
         THEN LET S1 == add_key(S, msg.block_hash, msg.key)
                  block == decrypt(S1.in_progress_blocks[msg.block_hash])
                  S2 == consume(S1, msg.block_hash)
              IN IF block # NoPayload
                 THEN _handle_decrypted_block(
                        add_block_event(S2, msg.block_hash, "ENC_BLOCK_DECRYPTED_SUCCESS"),
                        block, connection, FALSE, node_conn)
                 ELSE add_block_event(S, msg.block_hash, "ENC_BLOCK_DECRYPTION_ERROR")
         ELSE S
       IN broadcast(S3, msg, connection, FALSE, {GATEWAY})

\* msg: KeyMessage(block_hash, key)
process_block_key(S, msg, connection, node_conn) ==
  IF has_encryption_key_for_hash(S, msg.block_hash)
  THEN S
  ELSE LET S3 ==
         IF has_ciphertext_for_hash(S, msg.block_hash)
         THEN LET S1 == add_key(S, msg.block_hash, msg.key)
                  block == decrypt(S1.in_progress_blocks[msg.block_hash])
                  S2 == consume(S1, msg.block_hash)
              IN IF block # NoPayload
                 THEN _handle_decrypted_block(
                        add_block_event(S2, msg.block_hash, "ENC_BLOCK_DECRYPTED_SUCCESS"),
                        block, connection, FALSE, node_conn)
                 ELSE add_block_event(S, msg.block_hash, "ENC_BLOCK_DECRYPTION_ERROR")
         ELSE add_key(S, msg.block_hash, msg.key)
       IN broadcast(S3, msg, connection, FALSE, {GATEWAY})

RECURSIVE handle_recovered_blocks(_, _, _, _)
\* The loop of retry_broadcast_recovered_blocks over the recovered bx-blocks.
handle_recovered_blocks(S, blocks, connection, node_conn) ==
  IF blocks = <<>> THEN S
  ELSE handle_recovered_blocks(
         _handle_decrypted_block(S, Head(blocks), connection, TRUE, node_conn),
         Tail(blocks), connection, node_conn)

\* retry_broadcast_recovered_blocks that leaves the recovered blocks in the list.
retry_broadcast_recovered_blocks_keep(S, connection, node_conn) ==
  handle_recovered_blocks(S, S.recovered_blocks, connection, node_conn)

retry_broadcast_recovered_blocks(S, connection, node_conn) ==
  IF S.recovered_blocks = <<>> THEN S
  ELSE clean_up_recovered_blocks(
         handle_recovered_blocks(S, S.recovered_blocks, connection, node_conn))

\* recovery_attempts_by_block[block_hash], zero for a hash without entry.
recovery_attempts(S, block_hash) ==
  IF block_hash \in DOMAIN S.recovery_attempts_by_block
  THEN S.recovery_attempts_by_block[block_hash] ELSE 0

schedule_recovery_retry(S, block_hash) ==
  LET attempts == recovery_attempts(S, block_hash)
      recovery_timed_out ==
        now - S.recovery_start_time[block_hash] >= blockchain_block_recovery_timeout_s
  IN IF attempts >= BLOCK_RECOVERY_MAX_RETRY_ATTEMPTS \/ recovery_timed_out
     THEN remove(cancel_recovery_for_block(S, block_hash), block_hash)
     ELSE LET delay == BLOCK_RECOVERY_RECOVERY_INTERVAL_S[attempts + 1]
          IN register_approx_alarm(S, delay, delay \div 2, "_trigger_recovery_retry",
                                   block_hash)

\* alarm: the alarm that fired; its record is the one of the service unless
\* the service dropped it meanwhile.
_trigger_recovery_retry(S, alarm) ==
  LET block_hash == alarm.block_hash
      info == IF alarm.detached \/ block_hash \notin DOMAIN S.recovery
              THEN alarm ELSE S.recovery[block_hash]
      S1 == [S EXCEPT !.recovery_attempts_by_block =
                         SetKey(@, block_hash, recovery_attempts(S, block_hash) + 1)]
  IN start_transaction_recovery(S1, SetToSeq(info.unknown_short_ids),
                                SetToSeq(info.unknown_transaction_hashes),
                                block_hash, NoConn)

(* -------------------------- relay connection --------------------------- *)
\* CONNECTION_TYPE of a relay connection: the set of its roles.
RELAY_ALL == {RELAY_BLOCK, RELAY_TRANSACTION}
ConnectionTypes == {{RELAY_BLOCK}, {RELAY_TRANSACTION}, RELAY_ALL}
\* The connection of the pool that has the type.
ConnOf(CONNECTION_TYPE) ==
  IF RELAY_BLOCK \in CONNECTION_TYPE THEN RELAY_BLOCK ELSE RELAY_TRANSACTION

log_error(S, msg) == Emit(S, [op |-> "log_error", msg |-> msg])

\* msg_broadcast without the role check.
msg_broadcast_any(S, CONNECTION_TYPE, msg, node_conn) ==
  process_block_broadcast(S, msg, ConnOf(CONNECTION_TYPE), node_conn)

msg_broadcast(S, CONNECTION_TYPE, msg, node_conn) ==
  IF RELAY_BLOCK \in CONNECTION_TYPE
  THEN process_block_broadcast(S, msg, ConnOf(CONNECTION_TYPE), node_conn)
  ELSE log_error(S, msg)

msg_key(S, CONNECTION_TYPE, msg, node_conn) ==
  IF RELAY_BLOCK \in CONNECTION_TYPE
  THEN process_block_key(S, msg, ConnOf(CONNECTION_TYPE), node_conn)
  ELSE log_error(S, msg)

\* A tx message is [tx_hash, short_id, tx_val].
send_msg_to_node(S, msg) == Emit(S, [op |-> "send_msg_to_node", msg |-> msg])

\* message_converter.bx_tx_to_tx: the blockchain message with the contents.
bx_tx_to_tx(msg) == [type |-> "tx", tx |-> msg.tx_val]

\* msg_tx_ingest that sends contents to the node again that are known already.
msg_tx_ingest_reforward(S, connection, msg, node_conn) ==
  LET tx_hash == msg.tx_hash
      short_id == msg.short_id
      S1 == IF short_id # NULL_TX_SID
            THEN check_missing_sid(
                   [S EXCEPT !.tx_service = assign_short_id(@, tx_hash, short_id)], short_id)
            ELSE S
      was_missing == short_id # NULL_TX_SID /\ missing_sid(S, short_id)
  IN IF has_transaction_contents(S1.tx_service, tx_hash)
     THEN LET S2 == IF msg.tx_val # EMPTY_TX_VAL
                    THEN Emit(S1, [op |-> "log_redundant_transaction_content"])
                    ELSE S1
              S3 == IF msg.tx_val # EMPTY_TX_VAL /\ node_conn
                    THEN send_msg_to_node(S2, bx_tx_to_tx(msg)) ELSE S2
          IN IF was_missing
             THEN retry_broadcast_recovered_blocks(S3, connection, node_conn)
             ELSE S3
     ELSE IF msg.tx_val # EMPTY_TX_VAL
     THEN LET S2 == check_missing_tx_hash(
                      [S1 EXCEPT !.tx_service =
                          set_transaction_contents(@, tx_hash, msg.tx_val)], tx_hash)
              S3 == IF node_conn THEN send_msg_to_node(S2, bx_tx_to_tx(msg)) ELSE S2
          IN IF was_missing \/ missing_tx_hash(S1, tx_hash)
             THEN retry_broadcast_recovered_blocks(S3, connection, node_conn)
             ELSE S3
     ELSE IF was_missing
     THEN retry_broadcast_recovered_blocks(S1, connection, node_conn)
     ELSE S1

\* msg_tx that retries the recovered blocks before it stores the contents.
msg_tx_ingest_early(S, connection, msg, node_conn) ==
  LET tx_hash == msg.tx_hash
      short_id == msg.short_id
      S1 == IF short_id # NULL_TX_SID
            THEN retry_broadcast_recovered_blocks(
                   check_missing_sid(
                     [S EXCEPT !.tx_service = assign_short_id(@, tx_hash, short_id)], short_id),
                   connection, node_conn)
            ELSE S
  IN IF has_transaction_contents(S1.tx_service, tx_hash) \/ msg.tx_val = EMPTY_TX_VAL
     THEN S1
     ELSE LET S2 == check_missing_tx_hash(
                      [S1 EXCEPT !.tx_service =
                          set_transaction_contents(@, tx_hash, msg.tx_val)], tx_hash)
          IN IF node_conn THEN send_msg_to_node(S2, bx_tx_to_tx(msg)) ELSE S2

\* The part of msg_tx after the duplicate check.
msg_tx_ingest(S, connection, msg, node_conn) ==
  LET tx_hash == msg.tx_hash
      short_id == msg.short_id
      S1 == IF short_id # NULL_TX_SID
            THEN check_missing_sid(
                   [S EXCEPT !.tx_service = assign_short_id(@, tx_hash, short_id)], short_id)
            ELSE S
      was_missing == short_id # NULL_TX_SID /\ missing_sid(S, short_id)
  IN IF has_transaction_contents(S1.tx_service, tx_hash)
     THEN LET S2 == IF msg.tx_val # EMPTY_TX_VAL
                    THEN Emit(S1, [op |-> "log_redundant_transaction_content"])
                    ELSE S1
          IN IF was_missing
             THEN retry_broadcast_recovered_blocks(S2, connection, node_conn)
             ELSE S2
     ELSE IF msg.tx_val # EMPTY_TX_VAL
     THEN LET S2 == check_missing_tx_hash(
                      [S1 EXCEPT !.tx_service =
                          set_transaction_contents(@, tx_hash, msg.tx_val)], tx_hash)
              S3 == IF node_conn THEN send_msg_to_node(S2, bx_tx_to_tx(msg)) ELSE S2
          IN IF was_missing \/ missing_tx_hash(S1, tx_hash)
             THEN retry_broadcast_recovered_blocks(S3, connection, node_conn)
             ELSE S3
     ELSE IF was_missing
     THEN retry_broadcast_recovered_blocks(S1, connection, node_conn)
     ELSE S1

\* msg_tx without the duplicate check.
msg_tx_noduplicate(S, CONNECTION_TYPE, msg, node_conn) ==
  IF RELAY_TRANSACTION \notin CONNECTION_TYPE
  THEN log_error(S, msg)
  ELSE msg_tx_ingest(S, ConnOf(CONNECTION_TYPE), msg, node_conn)

msg_tx(S, CONNECTION_TYPE, msg, node_conn) ==
  IF RELAY_TRANSACTION \notin CONNECTION_TYPE
  THEN log_error(S, msg)
  ELSE IF /\ msg.short_id = NULL_TX_SID
          /\ get_short_ids(S.tx_service, msg.tx_hash) # {}
          /\ has_transaction_contents(S.tx_service, msg.tx_hash)
  THEN Emit(S, [op |-> "log_duplicate_transaction_from_relay"])
  ELSE msg_tx_ingest(S, ConnOf(CONNECTION_TYPE), msg, node_conn)

RECURSIVE learn_transactions_overwrite(_, _)
\* learn_transactions that stores the contents of every transaction it is given.
learn_transactions_overwrite(S, transactions) ==
  IF transactions = <<>> THEN S
  ELSE LET t == Head(transactions)
           S1 == check_missing_sid(S, t.short_id)
           S2 == IF has_short_id(S1.tx_service, t.short_id) THEN S1
                 ELSE [S1 EXCEPT !.tx_service = assign_short_id(@, t.tx_hash, t.short_id)]
           S3 == check_missing_tx_hash(S2, t.tx_hash)
           S4 == [S3 EXCEPT !.tx_service.contents = SetKey(@, t.tx_hash, t.contents)]
       IN learn_transactions_overwrite(S4, Tail(transactions))

RECURSIVE learn_transactions(_, _)
\* The loop of msg_txs over the transactions [tx_hash, contents, short_id].
learn_transactions(S, transactions) ==
  IF transactions = <<>> THEN S
  ELSE LET t == Head(transactions)
           S1 == check_missing_sid(S, t.short_id)
           S2 == IF has_short_id(S1.tx_service, t.short_id) THEN S1
                 ELSE [S1 EXCEPT !.tx_service = assign_short_id(@, t.tx_hash, t.short_id)]
           S3 == check_missing_tx_hash(S2, t.tx_hash)
           S4 == IF has_transaction_contents(S3.tx_service, t.tx_hash) THEN S3
                 ELSE [S3 EXCEPT !.tx_service =
                          set_transaction_contents(@, t.tx_hash, t.contents)]
       IN learn_transactions(S4, Tail(transactions))

RECURSIVE schedule_recovery_retries(_, _)
schedule_recovery_retries(S, blocks) ==
  IF blocks = <<>> THEN S
  ELSE schedule_recovery_retries(schedule_recovery_retry(S, Head(blocks)), Tail(blocks))

\* msg: [txs], the transactions of a TxsMessage
msg_txs(S, CONNECTION_TYPE, msg, node_conn) ==
  IF RELAY_TRANSACTION \notin CONNECTION_TYPE
  THEN log_error(S, msg)
  ELSE LET S1 == retry_broadcast_recovered_blocks(learn_transactions(S, msg.txs),
                                                  ConnOf(CONNECTION_TYPE), node_conn)
       IN schedule_recovery_retries(S1, get_blocks_awaiting_recovery(S1))


(* --------------------- blockchain node connections -------------------- *)
\* ConnectionState: the flags of connection.state
CONNECTING == "CONNECTING"
ESTABLISHED == "ESTABLISHED"
MARK_FOR_CLOSE == "MARK_FOR_CLOSE"

\* A connection as its constructor finds it: connecting, nothing to write.
NewConnection == [state |-> {CONNECTING}, outputbuf |-> <<>>]

is_active(c) == ESTABLISHED \in c.state /\ MARK_FOR_CLOSE \notin c.state

\* connection.enqueue_msg and enqueue_msg_bytes: the message is appended to the
\* output buffer; a connection marked for close takes no more messages.
enqueue_msg(c, message) ==
  IF MARK_FOR_CLOSE \in c.state THEN c
  ELSE [c EXCEPT !.outputbuf = Append(@, message)]

RECURSIVE enqueue_all(_, _)
\* for each_msg in messages: connection.enqueue_msg_bytes(each_msg)
enqueue_all(c, messages) ==
  IF messages = <<>> THEN c
  ELSE enqueue_all(enqueue_msg(c, Head(messages)), Tail(messages))

BLOCKCHAIN_PING_INTERVAL_S == 15

VersionBtcMessage == [type |-> "version"]
VerAckBtcMessage == [type |-> "verack"]
PongBtcMessage(nonce) == [type |-> "pong", nonce |-> nonce]

\* BtcBaseConnectionProtocol.__init__: the connection enqueues its version.
BtcBaseConnectionProtocol(c) == enqueue_msg(c, VersionBtcMessage)

\* node.send_msg_to_node: to the node connection, or to the queue of the node
\* while there is no node connection.
node_send_msg_to_node(S, message) ==
  IF S.node_connection # NoConn
  THEN [S EXCEPT !.btc_connection = enqueue_msg(@, message)]
  ELSE [S EXCEPT !.node_msg_queue = Append(@, message)]

\* msg_version that writes the queued messages before its verack.
msg_version_flush_first(S) ==
  LET S1 == [S EXCEPT !.btc_connection.state = @ \cup {ESTABLISHED}]
      S2 == register_alarm(S1, BLOCKCHAIN_PING_INTERVAL_S, "send_ping", 0,
                           [block_message |-> NoMsg, connection |-> BLOCKCHAIN_NODE])
  IN IF is_active(S2.btc_connection)
     THEN [S2 EXCEPT !.btc_connection =
                        enqueue_msg(enqueue_all(@, S2.node_msg_queue), VerAckBtcMessage),
                     !.node_msg_queue = <<>>,
                     !.node_connection = BLOCKCHAIN_NODE]
     ELSE [S2 EXCEPT !.btc_connection = enqueue_msg(@, VerAckBtcMessage)]

msg_version(S) ==
  LET S1 == [S EXCEPT !.btc_connection.state = @ \cup {ESTABLISHED}]
      S2 == [S1 EXCEPT !.btc_connection = enqueue_msg(@, VerAckBtcMessage)]
      S3 == register_alarm(S2, BLOCKCHAIN_PING_INTERVAL_S, "send_ping", 0,
                           [block_message |-> NoMsg, connection |-> BLOCKCHAIN_NODE])
  IN IF is_active(S3.btc_connection)
     THEN [S3 EXCEPT !.btc_connection = enqueue_all(@, S3.node_msg_queue),
                     !.node_msg_queue = <<>>,
                     !.node_connection = BLOCKCHAIN_NODE]
     ELSE S3

\* BtcBaseConnectionProtocol.msg_ping: the reply is a pong with the nonce.
msg_ping(S, nonce) ==
  [S EXCEPT !.btc_connection = enqueue_msg(@, PongBtcMessage(nonce))]


(* ------------------ Ethereum node discovery connection ----------------- *)
DISCOVERY_PONG_TIMEOUT_SEC == 5

PingEthDiscoveryMessage == [type |-> "ping"]

\* connection.mark_for_close
mark_for_close(c) == [c EXCEPT !.state = @ \cup {MARK_FOR_CLOSE}]

\* EthNodeDiscoveryConnection.__init__: no pong yet, the ping is sent and the
\* pong timeout is armed.
EthNodeDiscoveryConnection(S) ==
  LET c == [state |-> {CONNECTING}, outputbuf |-> <<>>, _pong_received |-> FALSE]
      S1 == [S EXCEPT !.discovery_connection = enqueue_msg(c, PingEthDiscoveryMessage)]
  IN register_alarm(S1, DISCOVERY_PONG_TIMEOUT_SEC, "_pong_timeout", 0,
                    [block_message |-> NoMsg, connection |-> BLOCKCHAIN_NODE])

\* EthNodeDiscoveryConnection.msg_ping: nothing is done with a ping.
discovery_msg_ping(S, msg) == S

\* msg: the pong, with the public key of its sender
msg_pong(S, msg) ==
  [S EXCEPT !.remote_public_key = msg.public_key,
            !.discovery_connection._pong_received = TRUE]

\* _pong_timeout that closes the connection whether or not a pong came.
_pong_timeout_always(S) ==
  [S EXCEPT !.discovery_connection = mark_for_close(@)]

_pong_timeout(S) ==
  IF ~S.discovery_connection._pong_received
  THEN [S EXCEPT !.discovery_connection = mark_for_close(@)]
  ELSE S

(* -------------------------- gateway connections ------------------------ *)
\* GatewayConnection.NULL_ORDERING: the ordering of a connection that has
\* generated none.
NULL_ORDERING == -1
LOCALHOST == "127.0.0.1"

GatewayHelloMessage(ip, port, ordering) ==
  [ip |-> ip, port |-> port, ordering |-> ordering]

\* A gateway node is [ip, port, connections, connection_pool, disconnects]:
\* its listening address, its connections by fileno ([peer_ip, peer_port,
\* from_me, ordering]), the fileno registered under each port, and the
\* filenos passed to enqueue_disconnect, in order.
enqueue_disconnect(G, fileno) == [G EXCEPT !.disconnects = Append(@, fileno)]

\* connection_pool.update_port: the connection is reachable under the port
\* too.
update_port(G, port, fileno) ==
  [G EXCEPT !.connection_pool = SetKey(@, port, fileno)]

\* msg_hello that keeps both connections whatever the orderings are.
msg_hello_keep_both(G, fileno, msg, ordering) ==
  [node |-> update_port(G, msg.port, fileno), sent |-> {}]

\* GatewayConnection.msg_hello on the connection fileno of the node G.
\* ordering: what the connection generates when it has to retry. The result
\* is the node and the messages the connection enqueued.
msg_hello_drop_self(G, fileno, msg, ordering) ==
  IF msg.port \in DOMAIN G.connection_pool /\ G.connection_pool[msg.port] # fileno
  THEN [node |-> enqueue_disconnect(G, fileno), sent |-> {}]
  ELSE [node |-> update_port(G, msg.port, fileno), sent |-> {}]

msg_hello_no_retry(G, fileno, msg, ordering) ==
  IF msg.port \in DOMAIN G.connection_pool /\ G.connection_pool[msg.port] # fileno
  THEN LET connection == G.connection_pool[msg.port]
       IN IF G.connections[connection].ordering > msg.ordering
          THEN [node |-> enqueue_disconnect(G, fileno), sent |-> {}]
          ELSE IF G.connections[connection].ordering < msg.ordering
          THEN [node |-> update_port(enqueue_disconnect(G, connection), msg.port, fileno),
                sent |-> {}]
          ELSE [node |-> update_port(G, msg.port, fileno), sent |-> {}]
  ELSE [node |-> update_port(G, msg.port, fileno), sent |-> {}]

msg_hello(G, fileno, msg, ordering) ==
  IF msg.ip # G.connections[fileno].peer_ip
  THEN [node |-> enqueue_disconnect(G, fileno), sent |-> {}]
  ELSE IF msg.port \in DOMAIN G.connection_pool /\ G.connection_pool[msg.port] # fileno
  THEN LET connection == G.connection_pool[msg.port]
       IN IF G.connections[connection].ordering > msg.ordering
          THEN [node |-> enqueue_disconnect(G, fileno), sent |-> {}]
          ELSE IF G.connections[connection].ordering < msg.ordering
          THEN [node |-> update_port(enqueue_disconnect(G, connection), msg.port, fileno),
                sent |-> {}]
          ELSE [node |-> update_port([G EXCEPT !.connections[fileno].ordering = ordering],
                                     msg.port, fileno),
                sent |-> {GatewayHelloMessage(G.ip, G.port, ordering)}]
  ELSE [node |-> update_port(G, msg.port, fileno), sent |-> {}]

(* ------------------------------- inputs ------------------------------- *)
\* The block with hash h, as the blockchain node sends it.
BlockMessage(h) ==
  [block_hash |-> h, txns |-> [i \in 1..MaxBlockTxs |-> ((h + i) % MaxSid) + 1]]

\* The bx-blocks a relay may send for the hash h.
BxBlocks(h) ==
  {[block_hash |-> h, body |-> b, short_ids |-> s] :
     b \in SeqsUpTo({1, BTC_SHORT_ID_INDICATOR}, MaxBlockTxs),
     s \in SeqsUpTo(Sids, MaxBlockTxs)}

\* The transaction service the relays have filled so far: of every three short
\* ids, the first is bound to a hash with known contents, the second to a hash
\* without contents, and the third is not bound.
InitialTxService ==
  [sid_to_hash |-> [s \in {x \in Sids : x % 3 # 0} |-> s],
   contents |-> [t \in {x \in TxHashes : x % 3 = 1} |-> t]]

(* ------------------------------- actions ------------------------------ *)
NoPublicKey == 0

\* No connection to a blockchain node has been opened.
ConnInit ==
  /\ node_msg_queue = <<>>
  /\ node_connection = NoConn
  /\ btc_connection = NewConnection
  /\ discovery_connection = NewConnection
  /\ remote_public_key = NoPublicKey
  /\ gateway_nodes = <<>>
  /\ hellos = {}
  /\ eth_protocol = EthNodeConnectionProtocol

Init ==
  /\ holds = <<>>
  /\ alarm_queue = <<>>
  /\ blocks_seen = {}
  /\ block_queue = <<>>
  /\ recovery = <<>>
  /\ tx_service = InitialTxService
  /\ in_progress_blocks = <<>>
  /\ recovered_blocks = <<>>
  /\ recovery_attempts_by_block = <<>>
  /\ recovery_start_time = <<>>
  /\ call = [fn |-> "__init__"]
  /\ out = <<>>
  /\ ConnInit

\* What a handler finds when it is called.
Pre ==
  [holds |-> holds, alarm_queue |-> alarm_queue, blocks_seen |-> blocks_seen,
   block_queue |-> block_queue, recovery |-> recovery, tx_service |-> tx_service,
   in_progress_blocks |-> in_progress_blocks, recovered_blocks |-> recovered_blocks,
   recovery_attempts_by_block |-> recovery_attempts_by_block]

AlarmDue == \E k \in 1..Len(alarm_queue) : alarm_queue[k].due <= now

\* ExpiringDict: an entry older than the expiration time is removed by the next
\* sweep, which comes at most one expiration time later.
Expired(hold) == now - hold.hold_message_time > blockchain_block_hold_timeout_s

SweepDue ==
  \E h \in DOMAIN holds :
     now - holds[h].hold_message_time >= 2 * blockchain_block_hold_timeout_s

\* One unit of time passes; no alarm is left behind.
Tick ==
  /\ ~AlarmDue
  /\ ~SweepDue
  /\ holds' = [h \in DOMAIN holds |->
                 [holds[h] EXCEPT !.hold_message_time = @ - 1]]
  /\ alarm_queue' = [k \in 1..Len(alarm_queue) |->
                       [alarm_queue[k] EXCEPT !.due = @ - 1]]
  /\ call' = [fn |-> "tick"]
  /\ out' = <<>>
  /\ recovery_start_time' =
       [h \in DOMAIN recovery_start_time |->
          IF now - recovery_start_time[h] >= blockchain_block_recovery_timeout_s
          THEN recovery_start_time[h] ELSE recovery_start_time[h] - 1]
  /\ UNCHANGED <<blocks_seen, block_queue, recovery, tx_service, in_progress_blocks,
               recovered_blocks, recovery_attempts_by_block>>
  /\ UNCHANGED conn_vars

\* ExpiringDict.cleanup of _holds
HoldsCleanup ==
  /\ \E h \in DOMAIN holds : Expired(holds[h])
  /\ holds' = [h \in {x \in DOMAIN holds : ~Expired(holds[x])} |-> holds[h]]
  /\ call' = [fn |-> "cleanup", pre |-> Pre]
  /\ out' = <<>>
  /\ UNCHANGED <<alarm_queue, blocks_seen, block_queue, recovery, tx_service,
               in_progress_blocks, recovered_blocks,
               recovery_attempts_by_block, recovery_start_time>>
  /\ UNCHANGED conn_vars

\* A relay or a gateway peer sends BlockHoldingMessage(h).
MsgBlockHolding(h, connection) ==
  /\ Commit(place_hold(St, h, connection))
  /\ call' = [fn |-> "place_hold", block_hash |-> h, connection |-> connection,
              pre |-> Pre]

\* The blockchain node sends the block h.
NodeBlock(h) ==
  /\ Commit(queue_block_for_processing(St, BlockMessage(h), BLOCKCHAIN_NODE))
  /\ call' = [fn |-> "queue_block_for_processing", block_hash |-> h,
              connection |-> BLOCKCHAIN_NODE, pre |-> Pre]

\* A block relay sends a broadcast message with the bx-block bx, unencrypted,
\* while the blockchain node is connected (node_conn) or not.
MsgBroadcast(h, bx, node_conn) ==
  /\ Commit(process_block_broadcast(St, [block_hash |-> h, is_encrypted |-> FALSE,
                                         blob |-> bx], RELAY_BLOCK, node_conn))
  /\ call' = [fn |-> "process_block_broadcast", block_hash |-> h, bx_block |-> bx,
              connection |-> RELAY_BLOCK, node_conn |-> node_conn, pre |-> Pre]

\* The alarm queue fires the alarm that is due first (the one registered first
\* among those due at the same time).
NextAlarm ==
  CHOOSE k \in 1..Len(alarm_queue) :
    \A j \in 1..Len(alarm_queue) :
       \/ alarm_queue[k].due < alarm_queue[j].due
       \/ alarm_queue[k].due = alarm_queue[j].due /\ k <= j

FireAlarm ==
  /\ AlarmDue
  /\ LET a == alarm_queue[NextAlarm]
         S == [St EXCEPT !.alarm_queue = SelectSeq(@, LAMBDA x : x.id # a.id)]
     IN /\ Commit(IF a.fn = "_holding_timeout"
                   THEN _holding_timeout(S, a.block_hash, a)
                   ELSE _trigger_recovery_retry(S, a))
        /\ call' = [fn |-> a.fn, block_hash |-> a.block_hash,
                    connection |-> a.connection, alarm |-> a.id, pre |-> Pre]

\* The queuing service sends the block at the head of its queue to the node.
SendBlockToNode ==
  /\ block_queue # <<>>
  /\ ~Head(block_queue).waiting_for_recovery
  /\ block_queue' = Tail(block_queue)
  /\ call' = [fn |-> "send_block_to_node", block_hash |-> Head(block_queue).block_hash,
              pre |-> Pre]
  /\ out' = <<>>
  /\ UNCHANGED <<holds, alarm_queue, blocks_seen, recovery, tx_service,
               in_progress_blocks, recovered_blocks,
               recovery_attempts_by_block, recovery_start_time>>
  /\ UNCHANGED conn_vars

Next ==
  \/ Tick
  \/ HoldsCleanup
  \/ \E h \in BlockHashes, c \in {RELAY_BLOCK, GATEWAY} : MsgBlockHolding(h, c)
  \/ \E h \in BlockHashes : NodeBlock(h)
  \/ \E h \in BlockHashes : \E bx \in BxBlocks(h) : MsgBroadcast(h, bx, TRUE)
  \/ \E h \in BlockHashes : MsgBroadcast(h, block_to_bx_block(BlockMessage(h), tx_service), FALSE)
  \/ FireAlarm
  \/ SendBlockToNode

Spec == Init /\ [][Next]_vars

\* The hold protocol alone, for several block hashes.
NextHolds ==
  \/ Tick
  \/ HoldsCleanup
  \/ \E h \in Hashes, c \in {RELAY_BLOCK, GATEWAY} : MsgBlockHolding(h, c)
  \/ \E h \in BlockHashes : NodeBlock(h)
  \/ FireAlarm

SpecHolds == Init /\ [][NextHolds]_vars


(* ------------------------- encrypted broadcasts ------------------------ *)
\* The bx-block the relays seal under the key: one short id, which the
\* transaction service knows with contents for the first key only.
SealedPayload(key) ==
  [block_hash |-> 1, body |-> <<BTC_SHORT_ID_INDICATOR>>,
   short_ids |-> <<((key - 1) % MaxSid) + 1>>]

Ciphertexts == {encrypt(k, SealedPayload(k)) : k \in Keys}

\* A relay connection of the type receives an encrypted broadcast message that
\* declares the hash h and carries the ciphertext.
RelayBroadcast(CONNECTION_TYPE, h, cipherblob) ==
  LET msg == [block_hash |-> h, is_encrypted |-> TRUE, blob |-> cipherblob]
  IN /\ Commit(msg_broadcast(St, CONNECTION_TYPE, msg, TRUE))
     /\ call' = [fn |-> "msg_broadcast", CONNECTION_TYPE |-> CONNECTION_TYPE,
                 msg |-> msg, pre |-> Pre]

\* A relay connection of the type receives the key message.
RelayKey(CONNECTION_TYPE, h, key) ==
  /\ Commit(msg_key(St, CONNECTION_TYPE, KeyMessage(h, key), TRUE))
  /\ call' = [fn |-> "msg_key", CONNECTION_TYPE |-> CONNECTION_TYPE,
              msg |-> KeyMessage(h, key), pre |-> Pre]

\* The in-progress blocks expire: the cache drops an entry.
InProgressCleanup ==
  \E h \in DOMAIN in_progress_blocks :
    /\ in_progress_blocks' = RemoveKey(in_progress_blocks, h)
    /\ call' = [fn |-> "cleanup", block_hash |-> h, pre |-> Pre]
    /\ out' = <<>>
    /\ UNCHANGED <<holds, alarm_queue, blocks_seen, block_queue, recovery, tx_service,
                   recovered_blocks, recovery_attempts_by_block, recovery_start_time>>
    /\ UNCHANGED conn_vars

NextCrypto ==
  \/ \E t \in ConnectionTypes, h \in EncHashes, c \in Ciphertexts : RelayBroadcast(t, h, c)
  \/ \E t \in ConnectionTypes, h \in EncHashes, k \in Keys : RelayKey(t, h, k)
  \/ InProgressCleanup
  \/ SendBlockToNode

SpecCrypto == Init /\ [][NextCrypto]_vars


(* ------------------------ transactions from relays --------------------- *)
\* The contents a tx message may carry for the hash.
TxVals(tx_hash) == {tx_hash, tx_hash + MaxSid}

TxMessages ==
  UNION {{[tx_hash |-> h, short_id |-> s, tx_val |-> v] :
            s \in {NULL_TX_SID} \cup Sids, v \in {EMPTY_TX_VAL} \cup TxVals(h)} :
         h \in Hashes}

\* The gateway starts with an empty transaction service.
InitTx ==
  /\ holds = <<>>
  /\ alarm_queue = <<>>
  /\ blocks_seen = {}
  /\ block_queue = <<>>
  /\ recovery = <<>>
  /\ tx_service = [sid_to_hash |-> <<>>, contents |-> <<>>]
  /\ in_progress_blocks = <<>>
  /\ recovered_blocks = <<>>
  /\ recovery_attempts_by_block = <<>>
  /\ recovery_start_time = <<>>
  /\ call = [fn |-> "__init__"]
  /\ out = <<>>
  /\ ConnInit

\* A relay connection of the type receives the tx message.
RelayTx(CONNECTION_TYPE, msg, node_conn) ==
  /\ Commit(msg_tx(St, CONNECTION_TYPE, msg, node_conn))
  /\ call' = [fn |-> "msg_tx", CONNECTION_TYPE |-> CONNECTION_TYPE, msg |-> msg,
              node_conn |-> node_conn, pre |-> Pre]

\* A relay connection of the type receives a txs message.
RelayTxs(CONNECTION_TYPE, transactions, node_conn) ==
  /\ Commit(msg_txs(St, CONNECTION_TYPE, [txs |-> transactions], node_conn))
  /\ call' = [fn |-> "msg_txs", CONNECTION_TYPE |-> CONNECTION_TYPE,
              msg |-> [txs |-> transactions], node_conn |-> node_conn, pre |-> Pre]

NextTx ==
  \E t \in ConnectionTypes, m \in TxMessages, node_conn \in BOOLEAN :
    RelayTx(t, m, node_conn)

SpecTx == InitTx /\ [][NextTx]_vars

\* The transactions of a txs message: a relay may bind any short id to a hash
\* and bring either contents for it.
Transactions ==
  UNION {{[tx_hash |-> h, contents |-> v, short_id |-> s] : s \in Sids, v \in TxVals(h)} :
         h \in Hashes}

\* Tx and txs messages in any order, on a relay connection of both roles.
NextTxService ==
  \/ \E m \in TxMessages, node_conn \in BOOLEAN : RelayTx(RELAY_ALL, m, node_conn)
  \/ \E txs \in SeqsUpTo(Transactions, MaxBlockTxs), node_conn \in BOOLEAN :
       RelayTxs(RELAY_ALL, txs, node_conn)

SpecTxService == InitTx /\ [][NextTxService]_vars


(* ------------------------- recovery of bx-blocks ----------------------- *)
\* What the relays know: every short id s is the short id of the transaction
\* s, whose contents are s. Their messages say no more than that.
RelayTxMessages ==
  UNION {{[tx_hash |-> s, short_id |-> s, tx_val |-> v] : v \in {EMPTY_TX_VAL, s}} :
         s \in Sids}

RelayTransactions == {[tx_hash |-> s, contents |-> s, short_id |-> s] : s \in Sids}

\* The bx-blocks of the block 1 that the relays send: one compressed
\* transaction each.
RelayBlocks ==
  {[block_hash |-> 1, body |-> <<BTC_SHORT_ID_INDICATOR>>, short_ids |-> <<s>>] : s \in Sids}

\* A relay connection of the type receives an unencrypted broadcast message.
RelayBlock(CONNECTION_TYPE, bx, node_conn) ==
  LET msg == [block_hash |-> bx.block_hash, is_encrypted |-> FALSE, blob |-> bx]
  IN /\ Commit(msg_broadcast(St, CONNECTION_TYPE, msg, node_conn))
     /\ call' = [fn |-> "msg_broadcast", CONNECTION_TYPE |-> CONNECTION_TYPE,
                 msg |-> msg, node_conn |-> node_conn, pre |-> Pre]

NextRecovery ==
  \/ Tick
  \/ FireAlarm
  \/ SendBlockToNode
  \/ \E h \in BlockHashes : NodeBlock(h)
  \/ \E bx \in RelayBlocks : RelayBlock(RELAY_ALL, bx, TRUE)
  \/ \E txs \in SeqsUpTo(RelayTransactions, MaxBlockTxs), node_conn \in BOOLEAN :
       RelayTxs(RELAY_ALL, txs, node_conn)

SpecRecovery == Init /\ [][NextRecovery]_vars

\* The event loop lets time pass, fires the alarms that are due and sends the
\* queued blocks; nothing obliges a relay to send anything.
FairSpecRecovery ==
  /\ SpecRecovery
  /\ WF_vars(Tick)
  /\ WF_vars(FireAlarm)
  /\ WF_vars(SendBlockToNode)


\* Bx-blocks, tx messages (with contents or without) and txs messages in any
\* order, the blockchain node being connected.
NextRecoveryTx ==
  \/ \E bx \in RelayBlocks : RelayBlock(RELAY_ALL, bx, TRUE)
  \/ \E m \in RelayTxMessages : RelayTx(RELAY_ALL, m, TRUE)
  \/ \E txs \in SeqsUpTo(RelayTransactions, MaxBlockTxs) : RelayTxs(RELAY_ALL, txs, TRUE)

SpecRecoveryTx == Init /\ [][NextRecoveryTx]_vars


(* ------------------------------ role gating ---------------------------- *)
\* The four gated handlers, on relay connections of every type.
NextGating ==
  \/ \E t \in ConnectionTypes, h \in EncHashes, c \in Ciphertexts : RelayBroadcast(t, h, c)
  \/ \E t \in ConnectionTypes, h \in EncHashes, k \in Keys : RelayKey(t, h, k)
  \/ \E t \in ConnectionTypes, m \in RelayTxMessages : RelayTx(t, m, TRUE)
  \/ \E t \in ConnectionTypes, txs \in SeqsUpTo(RelayTransactions, MaxBlockTxs) :
       RelayTxs(t, txs, TRUE)

SpecGating == Init /\ [][NextGating]_vars


(* ------------------- handshake with the Bitcoin node ------------------- *)
\* What a connection handler finds when it is called.
PreConn ==
  [node_msg_queue |-> node_msg_queue, node_connection |-> node_connection,
   btc_connection |-> btc_connection, discovery_connection |-> discovery_connection,
   remote_public_key |-> remote_public_key, alarm_queue |-> alarm_queue]

\* The k-th message the gateway has for the blockchain node.
NodeMessage(k) == [type |-> "node", id |-> k]

\* The positions of the output buffer that hold a message of the type.
Written(c, type) == {i \in 1..Len(c.outputbuf) : c.outputbuf[i].type = type}

\* The gateway has constructed the connection to the Bitcoin node.
InitBtc ==
  /\ holds = <<>>
  /\ alarm_queue = <<>>
  /\ blocks_seen = {}
  /\ block_queue = <<>>
  /\ recovery = <<>>
  /\ tx_service = InitialTxService
  /\ in_progress_blocks = <<>>
  /\ recovered_blocks = <<>>
  /\ recovery_attempts_by_block = <<>>
  /\ recovery_start_time = <<>>
  /\ node_msg_queue = <<>>
  /\ node_connection = NoConn
  /\ btc_connection = BtcBaseConnectionProtocol(NewConnection)
  /\ discovery_connection = NewConnection
  /\ remote_public_key = NoPublicKey
  /\ gateway_nodes = <<>>
  /\ hellos = {}
  /\ eth_protocol = EthNodeConnectionProtocol
  /\ call = [fn |-> "__init__"]
  /\ out = <<>>

\* The gateway has a message for the blockchain node: a block or a transaction.
SendMsgToNode ==
  LET sent == Len(node_msg_queue) + Cardinality(Written(btc_connection, "node"))
  IN /\ sent < MaxNodeMsgs
     /\ Commit(node_send_msg_to_node(St, NodeMessage(sent + 1)))
     /\ call' = [fn |-> "send_msg_to_node", msg |-> NodeMessage(sent + 1), pre |-> PreConn]

\* The version of the peer arrives; a connection marked for close is given no
\* message.
PeerVersion ==
  /\ MARK_FOR_CLOSE \notin btc_connection.state
  /\ Cardinality(Written(btc_connection, "verack")) < MaxPeerMsgs
  /\ Commit(msg_version(St))
  /\ call' = [fn |-> "msg_version", pre |-> PreConn]

\* A ping of the peer arrives; before the handshake only the hello messages
\* are handled.
PeerPing(nonce) ==
  /\ is_active(btc_connection)
  /\ Cardinality(Written(btc_connection, "pong")) < MaxPeerMsgs
  /\ Commit(msg_ping(St, nonce))
  /\ call' = [fn |-> "msg_ping", nonce |-> nonce, pre |-> PreConn]

NextBtc ==
  \/ SendMsgToNode
  \/ PeerVersion
  \/ \E nonce \in 1..MaxPeerMsgs : PeerPing(nonce)

SpecBtc == InitBtc /\ [][NextBtc]_vars


(* ----------------- discovery of the Ethereum node's key ---------------- *)
PublicKeys == 1..NumPublicKeys

\* The discovery connection has been constructed.
Discovering == "_pong_received" \in DOMAIN discovery_connection

\* The gateway opens the discovery connection to the Ethereum node, the first
\* or, in its reconnect loop, the one that replaces a closed connection.
DiscoveryConnect ==
  /\ ~Discovering \/ MARK_FOR_CLOSE \in discovery_connection.state
  /\ Commit(EthNodeDiscoveryConnection(St))
  /\ call' = [fn |-> "EthNodeDiscoveryConnection", pre |-> PreConn]

\* A pong of the Ethereum node arrives; a connection marked for close is given
\* no message.
PeerPong(public_key) ==
  /\ Discovering
  /\ MARK_FOR_CLOSE \notin discovery_connection.state
  /\ Commit(msg_pong(St, [type |-> "pong", public_key |-> public_key]))
  /\ call' = [fn |-> "msg_pong", public_key |-> public_key, pre |-> PreConn]

\* A ping of the Ethereum node arrives.
PeerDiscoveryPing ==
  /\ Discovering
  /\ MARK_FOR_CLOSE \notin discovery_connection.state
  /\ Commit(discovery_msg_ping(St, PingEthDiscoveryMessage))
  /\ call' = [fn |-> "msg_ping", pre |-> PreConn]

\* The alarm queue fires the pong timeout.
PongTimeout ==
  /\ AlarmDue
  /\ alarm_queue[NextAlarm].fn = "_pong_timeout"
  /\ Commit(_pong_timeout(
              [St EXCEPT !.alarm_queue =
                            SelectSeq(@, LAMBDA x : x.id # alarm_queue[NextAlarm].id)]))
  /\ call' = [fn |-> "_pong_timeout", pre |-> PreConn]

NextDiscovery ==
  \/ DiscoveryConnect
  \/ Tick
  \/ \E k \in PublicKeys : PeerPong(k)
  \/ PeerDiscoveryPing
  \/ PongTimeout

SpecDiscovery == Init /\ [][NextDiscovery]_vars


(* -------------------- duplicate gateway connections -------------------- *)
\* Two gateways on one host: main listens on 8000, peer on 8001. The inbound
\* connection of a gateway has fileno 1 and an ephemeral peer port, its
\* outbound connection has fileno 2 and the listening port of the other.
Nodes == {"main", "peer"}
Other(n) == IF n = "main" THEN "peer" ELSE "main"
Port(n) == IF n = "main" THEN 8000 ELSE 8001
EphemeralPort(n) == IF n = "main" THEN 40000 ELSE 40001
INBOUND == 1
OUTBOUND == 2

Orderings == 1..MaxOrdering
\* The orderings the outbound connections start with.
InitialOrderings == 1..(MaxOrdering - 2)

\* The gateway n with its outbound connection (if it dials) and its inbound
\* connection (if the other gateway dials), each added to the pool under its
\* peer port.
GatewayNode(n, dials, dialled, ordering) ==
  [ip |-> LOCALHOST,
   port |-> Port(n),
   connections |->
     [f \in {x \in {INBOUND} : dialled} \cup {x \in {OUTBOUND} : dials} |->
        IF f = INBOUND
        THEN [peer_ip |-> LOCALHOST, peer_port |-> EphemeralPort(n), from_me |-> FALSE,
              ordering |-> NULL_ORDERING]
        ELSE [peer_ip |-> LOCALHOST, peer_port |-> Port(Other(n)), from_me |-> TRUE,
              ordering |-> ordering]],
   connection_pool |->
     [p \in {x \in {EphemeralPort(n)} : dialled} \cup {x \in {Port(Other(n))} : dials} |->
        IF p = EphemeralPort(n) THEN INBOUND ELSE OUTBOUND],
   disconnects |-> <<>>]

\* One gateway has dialled the other, or both have at the same time; every
\* outbound connection has sent its hello.
InitGateways ==
  /\ holds = <<>>
  /\ alarm_queue = <<>>
  /\ blocks_seen = {}
  /\ block_queue = <<>>
  /\ recovery = <<>>
  /\ tx_service = InitialTxService
  /\ in_progress_blocks = <<>>
  /\ recovered_blocks = <<>>
  /\ recovery_attempts_by_block = <<>>
  /\ recovery_start_time = <<>>
  /\ node_msg_queue = <<>>
  /\ node_connection = NoConn
  /\ btc_connection = NewConnection
  /\ discovery_connection = NewConnection
  /\ remote_public_key = NoPublicKey
  /\ \E D \in (SUBSET Nodes) \ {{}}, ordering \in [Nodes -> InitialOrderings] :
       /\ gateway_nodes =
            [n \in Nodes |-> GatewayNode(n, n \in D, Other(n) \in D, ordering[n])]
       /\ hellos =
            {[node |-> Other(n), fileno |-> INBOUND,
              msg |-> GatewayHelloMessage(LOCALHOST, Port(n), ordering[n])] : n \in D}
  /\ eth_protocol = EthNodeConnectionProtocol
  /\ call = [fn |-> "__init__"]
  /\ out = <<>>

\* The orderings no connection has: what a connection generates is new.
FreshOrderings ==
  Orderings \ UNION {{gateway_nodes[n].connections[f].ordering :
                         f \in DOMAIN gateway_nodes[n].connections} : n \in Nodes}


PreGateways == [gateway_nodes |-> gateway_nodes, hellos |-> hellos]

Disconnected(G) == Range(G.disconnects)

\* The hello h reaches its connection, which has not been disconnected; what
\* the connection enqueues goes to the other end of its link.
DeliverHello(h, ordering) ==
  /\ h \in hellos
  /\ h.fileno \notin Disconnected(gateway_nodes[h.node])
  /\ LET r == msg_hello(gateway_nodes[h.node], h.fileno, h.msg, ordering)
     IN /\ gateway_nodes' = [gateway_nodes EXCEPT ![h.node] = r.node]
        /\ hellos' = (hellos \ {h}) \cup
                       {[node |-> Other(h.node), fileno |-> 3 - h.fileno, msg |-> m] :
                          m \in r.sent}
  /\ call' = [fn |-> "msg_hello", node |-> h.node, fileno |-> h.fileno, msg |-> h.msg,
              pre |-> PreGateways]
  /\ out' = <<>>
  /\ UNCHANGED <<service_vars, alarm_queue, node_msg_queue, node_connection,
                 btc_connection, discovery_connection, remote_public_key, eth_protocol>>

NextGateways ==
  \E h \in hellos, ordering \in FreshOrderings : DeliverHello(h, ordering)

SpecGateways == InitGateways /\ [][NextGateways]_vars


(* ------------------ Ethereum: new blocks announced by hash ------------- *)
\* eth_constants.REQUESTED_NEW_BLOCK_BODIES_MAX_COUNT: the deque of the block
\* body requests keeps that many requests and drops the oldest one beyond.
REQUESTED_NEW_BLOCK_BODIES_MAX_COUNT == 10

\* The oldest timestamp, relative to now, of a block that is still propagated.
MAX_BLOCK_AGE_S == 5

\* None, for the header bytes and the body bytes of NewBlockParts
NoBytes == [none |-> TRUE]

\* NewBlockParts(block_header_bytes, block_body_bytes, block_number)
NewBlockParts(block_header_bytes, block_body_bytes, block_number) ==
  [block_header_bytes |-> block_header_bytes, block_body_bytes |-> block_body_bytes,
   block_number |-> block_number]

\* The header of the block h, with its timestamp: the block is new, or too old.
BlockHeader(h, timestamp) == [hash |-> h, prev_hash |-> h - 1, timestamp |-> timestamp]
Timestamps == {now, now - 2 * MAX_BLOCK_AGE_S}
BlockHeaders == {BlockHeader(h, t) : h \in Hashes, t \in Timestamps}

\* The body of the block h: its transactions.
BlockBody(h) == [of |-> h, txns |-> BlockMessage(h).txns]

\* The number the node announces the block h with.
BlockNumber(h) == 100 + h
HashNumberPairs == {[block_hash |-> h, block_number |-> BlockNumber(h)] : h \in Hashes}

\* crypto_utils.keccak_hash of the bytes of a header: the hash of the block
keccak_hash(header_bytes) == header_bytes.hash

GetBlockHeadersEthProtocolMessage(block_hash, amount, skip, reverse) ==
  [type |-> "get_block_headers", block_hash |-> block_hash, amount |-> amount,
   skip |-> skip, reverse |-> reverse]

GetBlockBodiesEthProtocolMessage(block_hashes) ==
  [type |-> "get_block_bodies", block_hashes |-> block_hashes]

\* InternalEthBlockInfo.from_new_block_parts: the block of the header, with the
\* transactions of the body.
from_new_block_parts(new_block_parts) ==
  [block_hash |-> keccak_hash(new_block_parts.block_header_bytes),
   txns |-> new_block_parts.block_body_bytes.txns,
   timestamp |-> new_block_parts.block_header_bytes.timestamp]

is_valid_block_timestamp(block_message) == now - block_message.timestamp <= MAX_BLOCK_AGE_S

\* deque(maxlen).append
deque_append(d, x) ==
  IF Len(d) >= REQUESTED_NEW_BLOCK_BODIES_MAX_COUNT THEN Append(Tail(d), x) ELSE Append(d, x)

request_block_body(S, block_hashes) ==
  LET S1 == send_msg_to_node(S, GetBlockBodiesEthProtocolMessage(block_hashes))
  IN [S1 EXCEPT !.eth_protocol._block_bodies_requests = deque_append(@, block_hashes)]

\* The hashes of a new_block_hashes message that are not in blocks_seen.
block_hash_number_pairs(S, msg) ==
  SelectSeq(msg, LAMBDA p : p.block_hash \notin S.blocks_seen)

\* msg_new_block_hashes that asks for blocks the gateway has seen as well.
msg_new_block_hashes_seen(S, msg) ==
  LET pairs == msg
      hashes == [i \in 1..Len(pairs) |-> pairs[i].block_hash]
      last(h) == CHOOSE i \in 1..Len(pairs) :
                   /\ pairs[i].block_hash = h
                   /\ \A j \in 1..Len(pairs) : pairs[j].block_hash = h => j <= i
      S1 == [S EXCEPT !.out = @ \o [i \in 1..Len(msg) |->
                                     [op |-> "on_block_seen_by_blockchain_node",
                                      block_hash |-> msg[i].block_hash]]]
      S2 == [S1 EXCEPT
               !.eth_protocol._pending_new_blocks_parts =
                  [h \in DOMAIN @ \cup Range(hashes) |->
                     IF h \in Range(hashes)
                     THEN NewBlockParts(NoBytes, NoBytes, pairs[last(h)].block_number)
                     ELSE @[h]],
               !.out = @ \o [i \in 1..Len(pairs) |->
                                [op |-> "send_msg_to_node",
                                 msg |-> GetBlockHeadersEthProtocolMessage(
                                           hashes[i], 1, 0, FALSE)]]]
  IN IF pairs = <<>> THEN S1 ELSE request_block_body(S2, hashes)

\* The node is told of every announced hash; for the hashes not in blocks_seen,
\* in the order of the message, a pending entry is recorded (a later entry for
\* the same hash replaces the earlier one) and the header is requested; then
\* one request asks for the bodies of them all.
msg_new_block_hashes(S, msg) ==
  LET pairs == block_hash_number_pairs(S, msg)
      hashes == [i \in 1..Len(pairs) |-> pairs[i].block_hash]
      last(h) == CHOOSE i \in 1..Len(pairs) :
                   /\ pairs[i].block_hash = h
                   /\ \A j \in 1..Len(pairs) : pairs[j].block_hash = h => j <= i
      S1 == [S EXCEPT !.out = @ \o [i \in 1..Len(msg) |->
                                     [op |-> "on_block_seen_by_blockchain_node",
                                      block_hash |-> msg[i].block_hash]]]
      S2 == [S1 EXCEPT
               !.eth_protocol._pending_new_blocks_parts =
                  [h \in DOMAIN @ \cup Range(hashes) |->
                     IF h \in Range(hashes)
                     THEN NewBlockParts(NoBytes, NoBytes, pairs[last(h)].block_number)
                     ELSE @[h]],
               !.out = @ \o [i \in 1..Len(pairs) |->
                                [op |-> "send_msg_to_node",
                                 msg |-> GetBlockHeadersEthProtocolMessage(
                                           hashes[i], 1, 0, FALSE)]]]
  IN IF pairs = <<>> THEN S1 ELSE request_block_body(S2, hashes)

_check_pending_new_block(S, block_hash) ==
  LET pending == S.eth_protocol._pending_new_blocks_parts IN
  IF /\ block_hash \in DOMAIN pending
     /\ pending[block_hash].block_header_bytes # NoBytes
     /\ pending[block_hash].block_body_bytes # NoBytes
  THEN [S EXCEPT !.eth_protocol._ready_new_blocks = Append(@, block_hash)]
  ELSE S

RECURSIVE _process_ready_new_blocks(_)
\* The ready hashes are taken from the right end of the deque; the pending
\* entry of each is read (a KeyError when there is none) and the block is built
\* from its parts (a TypeError when a part is None); an exception ends the
\* handler.  The entry is removed, and the block is submitted if its timestamp
\* is valid.
_process_ready_new_blocks(S) ==
  LET ready == S.eth_protocol._ready_new_blocks
      pending == S.eth_protocol._pending_new_blocks_parts
  IN IF ready = <<>> THEN S
     ELSE LET ready_block_hash == ready[Len(ready)]
              S1 == [S EXCEPT !.eth_protocol._ready_new_blocks =
                                 SubSeq(ready, 1, Len(ready) - 1)]
          IN IF ready_block_hash \notin DOMAIN pending
             THEN Emit(S1, [op |-> "KeyError", key |-> ready_block_hash])
             ELSE IF \/ pending[ready_block_hash].block_header_bytes = NoBytes
                     \/ pending[ready_block_hash].block_body_bytes = NoBytes
             THEN Emit(S1, [op |-> "TypeError", key |-> ready_block_hash])
             ELSE LET new_block_msg == from_new_block_parts(pending[ready_block_hash])
                      S2 == [S1 EXCEPT !.eth_protocol._pending_new_blocks_parts =
                                          RemoveKey(@, ready_block_hash)]
                  IN IF is_valid_block_timestamp(new_block_msg)
                     THEN _process_ready_new_blocks(
                            queue_block_for_processing(
                              Emit(S2, [op |-> "queue_block_for_processing",
                                        block_message |-> new_block_msg,
                                        parts |-> pending[ready_block_hash]]),
                              new_block_msg, BLOCKCHAIN_NODE))
                     ELSE _process_ready_new_blocks(S2)

\* block_cleanup_service.mark_blocks_and_request_cleanup and
\* block_queuing_service.mark_blocks_seen_by_blockchain_node
mark_blocks(S, block_hashes) ==
  LET S1 == Emit(S, [op |-> "mark_blocks_and_request_cleanup", block_hashes |-> block_hashes])
      S2 == Emit(S1, [op |-> "mark_blocks_seen_by_blockchain_node",
                      block_hashes |-> block_hashes])
  IN [S2 EXCEPT !.eth_protocol.marked_for_cleanup = @ \cup Range(block_hashes)]

\* A single header of a pending block is the header that was asked for; any
\* other headers confirm blocks of the chain of the node.
msg_block_headers(S, msg) ==
  LET pending == S.eth_protocol._pending_new_blocks_parts
      block_hash == keccak_hash(msg[1])
  IN IF pending # <<>> /\ Len(msg) = 1 /\ block_hash \in DOMAIN pending
     THEN _process_ready_new_blocks(
            _check_pending_new_block(
              [S EXCEPT !.eth_protocol._pending_new_blocks_parts[block_hash]
                           .block_header_bytes = msg[1]],
              block_hash))
     ELSE IF Len(msg) > 0
          THEN mark_blocks(S, <<msg[1].prev_hash>> \o [i \in 1..Len(msg) |-> msg[i].hash])
          ELSE S

RECURSIVE block_bodies_loop(_, _, _, _)
\* for block_hash, block_body_bytes in zip(requested_hashes, bodies_bytes)
block_bodies_loop(S, requested_hashes, bodies_bytes, i) ==
  IF i > Len(requested_hashes) THEN S
  ELSE LET block_hash == requested_hashes[i]
           S1 == IF block_hash \in DOMAIN S.eth_protocol._pending_new_blocks_parts
                 THEN _check_pending_new_block(
                        [S EXCEPT !.eth_protocol._pending_new_blocks_parts[block_hash]
                                     .block_body_bytes = bodies_bytes[i]],
                        block_hash)
                 ELSE IF block_hash \in S.eth_protocol.marked_for_cleanup
                      THEN Emit(S, [op |-> "clean_block_transactions_by_block_components",
                                    block_hash |-> block_hash,
                                    transactions_list |-> bodies_bytes[i].txns])
                      ELSE Emit(S, [op |-> "warning", block_hash |-> block_hash])
       IN block_bodies_loop(S1, requested_hashes, bodies_bytes, i + 1)

\* The bodies answer the oldest request, body by body; a message with another
\* number of bodies drops every request.
msg_block_bodies(S, msg) ==
  LET requests == S.eth_protocol._block_bodies_requests IN
  IF requests = <<>> THEN S
  ELSE LET requested_hashes == Head(requests)
           S1 == [S EXCEPT !.eth_protocol._block_bodies_requests = Tail(requests)]
       IN IF Len(requested_hashes) # Len(msg)
          THEN [S1 EXCEPT !.eth_protocol._block_bodies_requests = <<>>]
          ELSE _process_ready_new_blocks(block_bodies_loop(S1, requested_hashes, msg, 1))

PreEth == [eth_protocol |-> eth_protocol, blocks_seen |-> blocks_seen, holds |-> holds]

\* The node announces blocks by hash; the requests that wait for their bodies
\* are at most MaxBodyRequests.
MsgNewBlockHashes(msg) ==
  /\ Len(eth_protocol._block_bodies_requests) < MaxBodyRequests
  /\ Commit(msg_new_block_hashes(St, msg))
  /\ call' = [fn |-> "msg_new_block_hashes", msg |-> msg, pre |-> PreEth]

MsgBlockHeaders(msg) ==
  /\ Commit(msg_block_headers(St, msg))
  /\ call' = [fn |-> "msg_block_headers", msg |-> msg, pre |-> PreEth]

MsgBlockBodies(msg) ==
  /\ Commit(msg_block_bodies(St, msg))
  /\ call' = [fn |-> "msg_block_bodies", msg |-> msg, pre |-> PreEth]

\* ExpiringDict: the pending entry of block_hash is older than
\* NEW_BLOCK_PARTS_MAX_WAIT_S and is removed.
PendingPartsCleanup(block_hash) ==
  /\ block_hash \in DOMAIN eth_protocol._pending_new_blocks_parts
  /\ Commit([St EXCEPT !.eth_protocol._pending_new_blocks_parts = RemoveKey(@, block_hash)])
  /\ call' = [fn |-> "remove_expired_items", block_hash |-> block_hash, pre |-> PreEth]

\* What the node sends as block bodies: the bodies of the blocks of the oldest
\* request, in its order, all of them or all but the last, which the node does
\* not have; and bodies nobody asked for.
NodeBlockBodies(all) ==
  LET requests == eth_protocol._block_bodies_requests
      bodies == [i \in 1..Len(Head(requests)) |-> BlockBody(Head(requests)[i])]
  IN IF requests = <<>> THEN IF all THEN <<BlockBody(1)>> ELSE <<>>
     ELSE IF all THEN bodies ELSE SubSeq(bodies, 1, Len(bodies) - 1)

NextEth ==
  \/ \E msg \in SeqsUpTo(HashNumberPairs, MaxAnnounced) \ {<<>>} : MsgNewBlockHashes(msg)
  \/ \E msg \in SeqsUpTo(BlockHeaders, 1) : MsgBlockHeaders(msg)
  \/ \E all \in BOOLEAN : MsgBlockBodies(NodeBlockBodies(all))
  \/ \E h \in Hashes : PendingPartsCleanup(h)
  \/ \E h \in BlockHashes :
       MsgBroadcast(h, block_to_bx_block(BlockMessage(h), tx_service), TRUE)

SpecEth == Init /\ [][NextEth]_vars


(* ----------------------- the converter alone -------------------------- *)
\* The transactions of a block, as the converter reads them: the known ones,
\* and one whose serialization starts with the byte BTC_SHORT_ID_INDICATOR.
RawTxs == TxHashes \cup {BTC_SHORT_ID_INDICATOR}

Blocks(h) == {[block_hash |-> h, txns |-> t] : t \in SeqsUpTo(RawTxs, MaxConverterTxs)}

\* The transaction services of gateways of one network: the network binds the
\* short id s to the hash s, and a gateway knows a part of the short ids and
\* a part of the contents.
TxServices ==
  {[sid_to_hash |-> [s \in D |-> s], contents |-> [t \in C |-> t]] :
     D \in SUBSET Sids, C \in SUBSET TxHashes}

\* The gateways that can compress every known transaction they hold.
Senders == {txs \in TxServices : DOMAIN txs.contents = TxHashes}

InitConverter ==
  /\ holds = <<>>
  /\ alarm_queue = <<>>
  /\ blocks_seen = {}
  /\ block_queue = <<>>
  /\ recovery = <<>>
  /\ tx_service \in TxServices
  /\ in_progress_blocks = <<>>
  /\ recovered_blocks = <<>>
  /\ recovery_attempts_by_block = <<>>
  /\ recovery_start_time = <<>>
  /\ call = [fn |-> "__init__"]
  /\ out = <<>>
  /\ ConnInit

\* The gateway compresses the block B and decompresses the result.
ConvertBlock(B) ==
  /\ call.fn = "__init__"
  /\ LET bx == block_to_bx_block(B, tx_service)
     IN call' = [fn |-> "block_to_bx_block", block_message |-> B, bx_block |-> bx,
                 result |-> bx_block_to_block(bx, tx_service)]
  /\ UNCHANGED <<holds, alarm_queue, blocks_seen, block_queue, recovery, tx_service, out,
               in_progress_blocks, recovered_blocks,
               recovery_attempts_by_block, recovery_start_time>>
  /\ UNCHANGED conn_vars

\* The gateway decompresses the bx-block another gateway made of the block B.
ReceiveBlock(B, sender) ==
  /\ call.fn = "__init__"
  /\ LET bx == block_to_bx_block(B, sender)
     IN call' = [fn |-> "bx_block_to_block", block_message |-> B, bx_block |-> bx,
                 sender |-> sender, result |-> bx_block_to_block(bx, tx_service)]
  /\ UNCHANGED <<holds, alarm_queue, blocks_seen, block_queue, recovery, tx_service, out,
               in_progress_blocks, recovered_blocks,
               recovery_attempts_by_block, recovery_start_time>>
  /\ UNCHANGED conn_vars

RECURSIVE learn_sids(_, _, _)
\* assign_short_id and set_transaction_contents for every short id of the list,
\* with the hash and the contents the sender has for it.
learn_sids(txs, sender, short_ids) ==
  IF short_ids = <<>> THEN txs
  ELSE LET sid == Head(short_ids)
           tx_hash == sender.sid_to_hash[sid]
       IN learn_sids(
            set_transaction_contents(assign_short_id(txs, tx_hash, sid),
                                     tx_hash, sender.contents[tx_hash]),
            sender, Tail(short_ids))

\* The gateway learns every unknown the decompression reported, and decompresses
\* the same bx-block again.
RecoverBlock ==
  /\ call.fn = "bx_block_to_block"
  /\ ~call.result.error
  /\ call.result.block_message = NoMsg
  /\ LET unknown == call.result.unknown_tx_sids
                      \o sids_of_hashes(call.sender, call.result.unknown_tx_hashes)
         txs == learn_sids(tx_service, call.sender, unknown)
     IN /\ tx_service' = txs
        /\ call' = [fn |-> "recovered", block_message |-> call.block_message,
                    bx_block |-> call.bx_block, first |-> call.result,
                    result |-> bx_block_to_block(call.bx_block, txs)]
  /\ UNCHANGED <<holds, alarm_queue, blocks_seen, block_queue, recovery, out,
               in_progress_blocks, recovered_blocks,
               recovery_attempts_by_block, recovery_start_time>>
  /\ UNCHANGED conn_vars

NextConverter ==
  \/ \E B \in Blocks(1) : ConvertBlock(B)
  \/ \E B \in Blocks(1), sender \in Senders : ReceiveBlock(B, sender)
  \/ RecoverBlock

SpecConverter == InitConverter /\ [][NextConverter]_vars

(* ========================== properties ================================ *)
Called(fn) == call.fn = fn

\* The registered hold-timeout alarms of the hash h in the alarm queue q.
HoldAlarms(q, h) ==
  {k \in 1..Len(q) : q[k].fn = "_holding_timeout" /\ q[k].block_hash = h}

OutOps(op) == {i \in 1..Len(out) : out[i].op = op}

HoldBroadcast(h, connection, prepend_to_queue) ==
  [op |-> "broadcast",
   msg |-> [type |-> "blockhold", block_hash |-> h, network_num |-> network_num],
   to |-> {RELAY_BLOCK, GATEWAY} \ {connection},
   prepend_to_queue |-> prepend_to_queue]

\* The bx-block of the last broadcast message had short ids the transaction
\* service does not know, or knows without contents.
UnknownSidsOf(bx) == {s \in Range(bx.short_ids) : s \notin DOMAIN tx_service.sid_to_hash}

UnknownHashesOf(bx) ==
  {tx_service.sid_to_hash[s] :
     s \in {x \in Range(bx.short_ids) :
              /\ x \in DOMAIN tx_service.sid_to_hash
              /\ tx_service.sid_to_hash[x] \notin DOMAIN tx_service.contents}}

\* The last handler was process_block_broadcast and it decompressed the bx-block
\* into a block message.
BdnBlockDecompressed ==
  /\ Called("process_block_broadcast")
  /\ call.node_conn
  /\ bx_block_to_block(call.bx_block, tx_service).block_message # NoMsg

(* C1: whenever a bx-block h from the BDN is decompressed while the hold-timeout
   alarm of a locally held copy of h is still pending, afterwards there is no
   hold for h, no hold-timeout alarm for h is left to fire (the held copy is
   never propagated), and the block has been handed to the queuing service. *)
C1_BdnBlockBeforeTimeoutDropsHeldCopy ==
  (BdnBlockDecompressed /\ HoldAlarms(call.pre.alarm_queue, call.block_hash) # {})
  => /\ call.block_hash \notin DOMAIN holds
     /\ HoldAlarms(alarm_queue, call.block_hash) = {}
     /\ \E i \in OutOps("push") \cup OutOps("update_recovered_block") :
          out[i].block_hash = call.block_hash /\ out[i].block_msg # NoMsg

(* C2 as stated: every queue_block_for_processing call that finds a hold for its
   hash stores the message on the hold and arms one more alarm, keeps the hold,
   and neither propagates nor broadcasts. *)
C2_EveryHeldCallArmsAnAlarm ==
  (Called("queue_block_for_processing") /\ call.block_hash \in DOMAIN call.pre.holds)
  => /\ out = <<>>
     /\ call.block_hash \in DOMAIN holds
     /\ holds[call.block_hash].block_message = BlockMessage(call.block_hash)
     /\ Len(alarm_queue) = Len(call.pre.alarm_queue) + 1

(* C2 amended: a queue_block_for_processing call that finds a hold for its hash
   neither propagates nor broadcasts and keeps the hold; if the hold has no alarm
   yet, the message and the connection are stored on it and exactly one alarm,
   due after blockchain_block_hold_timeout_s, is registered and recorded on the
   hold; if the hold already has an alarm, nothing changes. *)
C2_HeldBlockIsParked ==
  (Called("queue_block_for_processing") /\ call.block_hash \in DOMAIN call.pre.holds)
  => LET h == call.block_hash
         before == call.pre.holds[h]
     IN /\ out = <<>>
        /\ h \in DOMAIN holds
        /\ \A g \in DOMAIN call.pre.holds \ {h} : holds[g] = call.pre.holds[g]
        /\ IF before.alarm = NoAlarm
           THEN /\ holds[h].block_message = BlockMessage(h)
                /\ holds[h].connection = call.connection
                /\ holds[h].hold_message_time = before.hold_message_time
                /\ holds[h].holding_connection = before.holding_connection
                /\ Len(alarm_queue) = Len(call.pre.alarm_queue) + 1
                /\ SubSeq(alarm_queue, 1, Len(call.pre.alarm_queue)) = call.pre.alarm_queue
                /\ LET a == alarm_queue[Len(alarm_queue)]
                   IN /\ a.id = holds[h].alarm
                      /\ a.due = now + blockchain_block_hold_timeout_s
                      /\ a.block_hash = h
                      /\ a.block_message = BlockMessage(h)
                      /\ \A k \in 1..Len(call.pre.alarm_queue) : alarm_queue[k].id # a.id
           ELSE holds = call.pre.holds /\ alarm_queue = call.pre.alarm_queue

C2_Witness ==
  /\ Called("queue_block_for_processing")
  /\ call.block_hash \in DOMAIN call.pre.holds
  /\ call.pre.holds[call.block_hash].alarm = NoAlarm
  /\ Len(alarm_queue) = Len(call.pre.alarm_queue) + 1

(* C3: a block parked on a hold is not propagated by the call that parks it; its
   alarm is due blockchain_block_hold_timeout_s after that call and is never
   overdue; when the alarm fires, at its due time, the held block is compressed
   and handed to the neutrality service exactly once, on the connection it came
   from, and the alarm is gone from the alarm queue. *)
C3_HeldBlockPropagatedOnTimeout ==
  /\ \A k \in 1..Len(alarm_queue) :
       alarm_queue[k].due \in now..(now + blockchain_block_hold_timeout_s)
  /\ (Called("queue_block_for_processing") /\ call.block_hash \in DOMAIN call.pre.holds)
     => /\ OutOps("propagate_block_to_network") = {}
        /\ call.pre.holds[call.block_hash].alarm = NoAlarm
           => alarm_queue[Len(alarm_queue)].due = now + blockchain_block_hold_timeout_s
  /\ Called("_holding_timeout")
     => /\ \E k \in 1..Len(call.pre.alarm_queue) :
             /\ call.pre.alarm_queue[k].id = call.alarm
             /\ call.pre.alarm_queue[k].due = now
        /\ \A k \in 1..Len(alarm_queue) : alarm_queue[k].id # call.alarm
        /\ Len(alarm_queue) = Len(call.pre.alarm_queue) - 1
        /\ Cardinality(OutOps("propagate_block_to_network")) = 1
        /\ out[1] = [op |-> "propagate_block_to_network",
                     bx_block |-> block_to_bx_block(BlockMessage(call.block_hash), tx_service),
                     connection |-> BLOCKCHAIN_NODE]

C3_Witness ==
  /\ Called("_holding_timeout")
  /\ call.block_hash \in DOMAIN holds
  /\ holds[call.block_hash].alarm = call.alarm
  /\ Cardinality(OutOps("propagate_block_to_network")) = 1

(* C4: in every state, cancel_hold_timeout(h, c) leaves no hold for h and no
   hold-timeout alarm of h registered (the locally held block is never
   propagated), calls no collaborator, and a second cancel changes nothing. *)
C4_CancelLeavesNoHoldState ==
  \A h \in BlockHashes :
    LET S == cancel_hold_timeout(St, h, RELAY_BLOCK)
    IN /\ h \notin DOMAIN S.holds
       /\ HoldAlarms(S.alarm_queue, h) = {}
       /\ S.out = <<>>
       /\ cancel_hold_timeout(S, h, RELAY_BLOCK) = S

(* C5: a queue_block_for_processing call that finds no hold for its hash
   broadcasts exactly one BlockHoldingMessage(h), prepended, to the relay-block
   and gateway peers other than the source connection, and only then hands the
   compressed block to the neutrality service; it creates no hold. *)
C5_NoHoldBroadcastsThenPropagates ==
  (Called("queue_block_for_processing") /\ call.block_hash \notin DOMAIN call.pre.holds)
  => /\ Len(out) >= 2
     /\ out[1] = HoldBroadcast(call.block_hash, call.connection, TRUE)
     /\ out[1].to = {RELAY_BLOCK, GATEWAY}
     /\ OutOps("broadcast") = {1}
     /\ OutOps("propagate_block_to_network") = {2}
     /\ out[2].bx_block = block_to_bx_block(BlockMessage(call.block_hash), tx_service)
     /\ holds = call.pre.holds
     /\ alarm_queue = call.pre.alarm_queue

C5_Witness ==
  /\ Called("queue_block_for_processing")
  /\ call.block_hash \notin DOMAIN call.pre.holds
  /\ OutOps("propagate_block_to_network") = {2}

(* C6: whenever a handler propagates a block that came from the blockchain node,
   it has called propagate_block_to_network, cancel_recovery_for_block and
   block_queuing_service.remove exactly once each, and the hash is in
   blocks_seen. *)
C6_PropagationCleansUp ==
  ((Called("queue_block_for_processing") \/ Called("_holding_timeout"))
     /\ OutOps("propagate_block_to_network") # {})
  => /\ Cardinality(OutOps("propagate_block_to_network")) = 1
     /\ Cardinality(OutOps("cancel_recovery_for_block")) = 1
     /\ Cardinality(OutOps("remove")) = 1
     /\ call.block_hash \in blocks_seen

(* C7: a place_hold call for a hash that is not in blocks_seen and has no hold
   creates exactly one hold, with the current time and the calling connection,
   leaves every other hold as it was, and broadcasts exactly one
   BlockHoldingMessage(h, network_num) to the relay-block and gateway peers other
   than the calling connection; so n calls for n hashes make n holds and n
   broadcasts, one per call. *)
C7_FreshHoldCreatedAndAnnounced ==
  (/\ Called("place_hold")
   /\ call.block_hash \notin call.pre.blocks_seen
   /\ call.block_hash \notin DOMAIN call.pre.holds)
  => /\ DOMAIN holds = DOMAIN call.pre.holds \cup {call.block_hash}
     /\ Cardinality(DOMAIN holds) = Cardinality(DOMAIN call.pre.holds) + 1
     /\ holds[call.block_hash] =
          [hold_message_time |-> now, holding_connection |-> call.connection,
           block_message |-> NoMsg, alarm |-> NoAlarm, connection |-> NoConn]
     /\ \A g \in DOMAIN call.pre.holds : holds[g] = call.pre.holds[g]
     /\ out = <<HoldBroadcast(call.block_hash, call.connection, FALSE)>>
     /\ out[1].msg.network_num = network_num
     /\ call.connection \notin out[1].to
     /\ alarm_queue = call.pre.alarm_queue

C7_Witness ==
  /\ Called("place_hold")
  /\ call.block_hash \notin DOMAIN call.pre.holds
  /\ DOMAIN call.pre.holds # {}
  /\ Cardinality(DOMAIN holds) = NumHashes
  /\ Len(out) = 1

(* C8: a place_hold call for a hash that already has a hold changes neither that
   hold nor any other, creates no hold, registers nothing and broadcasts
   nothing. *)
C8_PlaceHoldIdempotent ==
  (Called("place_hold") /\ call.block_hash \in DOMAIN call.pre.holds)
  => /\ holds = call.pre.holds
     /\ alarm_queue = call.pre.alarm_queue
     /\ out = <<>>

C8_Witness ==
  /\ Called("place_hold")
  /\ call.block_hash \in DOMAIN call.pre.holds
  /\ call.pre.holds[call.block_hash].holding_connection # call.connection
  /\ call.pre.holds[call.block_hash].alarm # NoAlarm
  /\ holds = call.pre.holds

(* C9: a place_hold call for a hash in blocks_seen creates no hold and broadcasts
   nothing; a hash in blocks_seen has no hold, so a block with that hash coming
   from the blockchain node afterwards is propagated by the call that brings
   it. *)
C9_NoHoldForSeenBlock ==
  /\ (Called("place_hold") /\ call.block_hash \in call.pre.blocks_seen)
     => holds = call.pre.holds /\ out = <<>> /\ call.block_hash \notin DOMAIN holds
  /\ \A h \in blocks_seen : h \notin DOMAIN holds
  /\ (Called("queue_block_for_processing") /\ call.block_hash \in call.pre.blocks_seen)
     => OutOps("propagate_block_to_network") # {}

C9_Witness ==
  /\ Called("place_hold")
  /\ call.block_hash \in call.pre.blocks_seen
  /\ out = <<>>

(* C10: when a bx-block h that is neither in blocks_seen nor in the block queue
   decompresses with unknown short ids or hashes, the handler records it in the
   recovery service with exactly those unknowns, then broadcasts one GetTxs
   (and nothing else) to the relay-transaction peers, listing the unknown short
   ids followed by a short id of every hash with unknown contents, then pushes a
   placeholder with waiting_for_recovery set; h is not added to blocks_seen. *)
C10_UnknownsStartRecovery ==
  (/\ Called("process_block_broadcast")
   /\ call.node_conn
   /\ call.block_hash \notin call.pre.blocks_seen
   /\ ~InQueue(call.pre.block_queue, call.block_hash)
   /\ UnknownSidsOf(call.bx_block) \cup UnknownHashesOf(call.bx_block) # {})
  => LET h == call.block_hash
         bx == call.bx_block
         us == SelectSeq(bx.short_ids, LAMBDA s : s \notin DOMAIN tx_service.sid_to_hash)
         hs == SelectSeq(bx.short_ids,
                         LAMBDA s : /\ s \in DOMAIN tx_service.sid_to_hash
                                    /\ tx_service.sid_to_hash[s] \notin DOMAIN tx_service.contents)
     IN /\ h \in DOMAIN recovery
        /\ recovery[h] = [bx_block |-> bx, unknown_short_ids |-> UnknownSidsOf(bx),
                          unknown_transaction_hashes |-> UnknownHashesOf(bx)]
        /\ Len(out) = 3
        /\ out[1].op = "add_block" /\ out[1].block_hash = h
        /\ out[2].op = "broadcast"
        /\ out[2].msg.type = "gettxs"
        /\ out[2].to = {RELAY_TRANSACTION}
        /\ Len(out[2].msg.short_ids) = Len(us) + Len(hs)
        /\ SubSeq(out[2].msg.short_ids, 1, Len(us)) = us
        /\ \A k \in 1..Len(hs) :
             LET s == out[2].msg.short_ids[Len(us) + k]
             IN /\ s \in DOMAIN tx_service.sid_to_hash
                /\ tx_service.sid_to_hash[s] = tx_service.sid_to_hash[hs[k]]
        /\ out[3] = [op |-> "push", block_hash |-> h, block_msg |-> NoMsg,
                     waiting_for_recovery |-> TRUE]
        /\ block_queue = Append(call.pre.block_queue,
                                [block_hash |-> h, block_msg |-> NoMsg,
                                 waiting_for_recovery |-> TRUE])
        /\ blocks_seen = call.pre.blocks_seen
        /\ h \notin blocks_seen

C10_Witness ==
  /\ Called("process_block_broadcast")
  /\ call.node_conn
  /\ ~InQueue(call.pre.block_queue, call.block_hash)
  /\ UnknownHashesOf(call.bx_block) # {}
  /\ call.block_hash \in DOMAIN recovery
  /\ Len(out) = 3

(* C13: when a bx-block whose hash is already in blocks_seen is handled (the
   node is connected and the bx-block parses), the only call the handler makes
   is track_seen_short_ids with the short ids of the bx-block: nothing is
   pushed to or updated in the block queue, no recovery record is created, no
   GetTxs is sent, blocks_seen is unchanged, and no hold on the hash is left. *)
C13_SeenBlockIgnored ==
  (/\ Called("process_block_broadcast")
   /\ call.node_conn
   /\ ~bx_block_to_block(call.bx_block, tx_service).error
   /\ call.block_hash \in call.pre.blocks_seen)
  => /\ out = <<[op |-> "track_seen_short_ids", block_hash |-> call.block_hash,
                 short_ids |-> call.bx_block.short_ids]>>
     /\ block_queue = call.pre.block_queue
     /\ recovery = call.pre.recovery
     /\ blocks_seen = call.pre.blocks_seen
     /\ call.block_hash \notin DOMAIN holds
     /\ \A g \in DOMAIN holds : holds[g] = call.pre.holds[g]

C13_Witness ==
  /\ Called("process_block_broadcast")
  /\ call.node_conn
  /\ call.block_hash \in call.pre.blocks_seen
  /\ UnknownSidsOf(call.bx_block) # {}
  /\ Len(out) = 1
  /\ out[1].op = "track_seen_short_ids"

(* C19: when a gateway compresses a block and decompresses the result with the
   same transaction service, in which every short id used for the block's
   transactions has known contents, it gets the block back, with no unknown
   short id and no unknown hash. *)
C19_RoundTrip ==
  (/\ Called("block_to_bx_block")
   /\ \A s \in Range(call.bx_block.short_ids) :
        has_transaction_contents(tx_service, tx_service.sid_to_hash[s]))
  => /\ ~call.result.error
     /\ call.result.block_message = call.block_message
     /\ call.result.unknown_tx_sids = <<>>
     /\ call.result.unknown_tx_hashes = <<>>

(* C20: when the decompression of a bx-block made of the block B reports unknown
   short ids or hashes, it returns no block; after assign_short_id and
   set_transaction_contents for each of them, the decompression of the same
   bx-block returns B. *)
C20_RoundTripAfterRecovery ==
  Called("recovered")
  => /\ call.first.block_message = NoMsg
     /\ ~call.result.error
     /\ call.result.block_message = call.block_message
     /\ call.result.unknown_tx_sids = <<>>
     /\ call.result.unknown_tx_hashes = <<>>


(* ------------------------- encrypted broadcasts ------------------------ *)
\* The last handler opened the pair of the hash h and handed the payload to
\* _handle_decrypted_block.
Decrypted(h) ==
  \E i \in 1..Len(out) : /\ out[i].op = "add_block_event"
                         /\ out[i].event = "ENC_BLOCK_DECRYPTED_SUCCESS"
                         /\ out[i].block_hash = h

\* The handler found the key, the ciphertext, of the hash.
HadKey(h) ==
  h \in DOMAIN call.pre.in_progress_blocks /\ call.pre.in_progress_blocks[h].key # NoKey

HadCiphertext(h) ==
  /\ h \in DOMAIN call.pre.in_progress_blocks
  /\ call.pre.in_progress_blocks[h].ciphertext # NoCiphertext

\* A block relay connection handled an encrypted broadcast message.
EncryptedBroadcast ==
  /\ call.fn = "msg_broadcast"
  /\ RELAY_BLOCK \in call.CONNECTION_TYPE
  /\ call.msg.is_encrypted

KeyHandled == call.fn = "msg_key" /\ RELAY_BLOCK \in call.CONNECTION_TYPE

\* C14: a payload is handed to _handle_decrypted_block only by the arrival of
\* the second half of a pair, ciphertext and key, in either order. A ciphertext
\* that arrives first is stored and a BlockReceivedMessage goes to the gateway
\* peers; a key that arrives first is stored; the arrival of the matching
\* second half opens the pair, and the entry of the hash is removed.
C14_PairOpensOnSecondArrival ==
  /\ \A h \in EncHashes :
       Decrypted(h) =>
         \/ EncryptedBroadcast /\ call.msg.block_hash = h /\ HadKey(h)
         \/ KeyHandled /\ call.msg.block_hash = h /\ HadCiphertext(h)
  /\ (EncryptedBroadcast /\ call.msg.block_hash = double_sha256(call.msg.blob)) =>
       LET h == call.msg.block_hash
       IN IF HadKey(h)
          THEN call.pre.in_progress_blocks[h].key = call.msg.blob.key
                 => Decrypted(h) /\ h \notin DOMAIN in_progress_blocks
          ELSE /\ h \in DOMAIN in_progress_blocks
               /\ in_progress_blocks[h] = [ciphertext |-> call.msg.blob, key |-> NoKey]
               /\ out = <<[op |-> "broadcast", msg |-> BlockReceivedMessage(h),
                           to |-> {GATEWAY}, prepend_to_queue |-> FALSE]>>
  /\ (KeyHandled /\ ~HadKey(call.msg.block_hash)) =>
       LET h == call.msg.block_hash
       IN IF HadCiphertext(h)
          THEN call.pre.in_progress_blocks[h].ciphertext.key = call.msg.key
                 => Decrypted(h) /\ h \notin DOMAIN in_progress_blocks
          ELSE /\ h \in DOMAIN in_progress_blocks
               /\ in_progress_blocks[h] = [ciphertext |-> NoCiphertext, key |-> call.msg.key]
               /\ ~Decrypted(h)

\* The key came first and the ciphertext opened the pair.
C14_Witness ==
  /\ EncryptedBroadcast
  /\ HadKey(call.msg.block_hash)
  /\ ~HadCiphertext(call.msg.block_hash)
  /\ Decrypted(call.msg.block_hash)
  /\ call.msg.block_hash \notin DOMAIN in_progress_blocks

\* C15: an encrypted broadcast whose declared hash is not the double SHA-256
\* of its ciphertext has no effect: nothing is stored, no receipt is sent,
\* nothing is decrypted even if the key of the declared hash is known, and
\* nothing reaches the block queue or the recovery service.
C15_HashMismatchDropped ==
  (EncryptedBroadcast /\ call.msg.block_hash # double_sha256(call.msg.blob)) =>
     /\ out = <<>>
     /\ Pre = call.pre

\* The mismatching broadcast declared a hash whose key was known.
C15_Witness ==
  /\ EncryptedBroadcast
  /\ call.msg.block_hash # double_sha256(call.msg.blob)
  /\ HadKey(call.msg.block_hash)


(* ------------------------- recovery of bx-blocks ----------------------- *)
\* A transaction relay connection handled a txs message.
TxsHandled == call.fn = "msg_txs" /\ RELAY_TRANSACTION \in call.CONNECTION_TYPE

\* The handler found the block h waiting for recovery: a recovery record and
\* a placeholder in the queue.
WaitingForRecovery(h) ==
  /\ h \in DOMAIN call.pre.recovery
  /\ \E i \in 1..Len(call.pre.block_queue) :
       /\ call.pre.block_queue[i].block_hash = h
       /\ call.pre.block_queue[i].waiting_for_recovery

\* The txs message supplies everything the record of h misses.
SuppliesEveryMissing(h) ==
  /\ ~is_block_recovered(call.pre.recovery[h])
  /\ \A sid \in call.pre.recovery[h].unknown_short_ids :
       \E i \in 1..Len(call.msg.txs) : call.msg.txs[i].short_id = sid
  /\ \A tx_hash \in call.pre.recovery[h].unknown_transaction_hashes :
       \E i \in 1..Len(call.msg.txs) : call.msg.txs[i].tx_hash = tx_hash

\* The recovery of h completed: the message is attached to the placeholder
\* and nothing is pushed, the record is gone, the hash is seen, and no
\* recovered block is left in the list.
RecoveryCompleted(h) ==
  /\ \E i \in 1..Len(out) : out[i].op = "update_recovered_block" /\ out[i].block_hash = h
  /\ OutOps("push") = {}
  /\ Len(block_queue) = Len(call.pre.block_queue)
  /\ \A i \in 1..Len(block_queue) :
       IF call.pre.block_queue[i].block_hash = h
       THEN /\ block_queue[i].block_hash = h
            /\ block_queue[i].block_msg # NoMsg
            /\ ~block_queue[i].waiting_for_recovery
       ELSE block_queue[i] = call.pre.block_queue[i]
  /\ h \notin DOMAIN recovery
  /\ h \in blocks_seen
  /\ recovered_blocks = <<>>

\* C11: when a block waits for recovery and a txs message supplies every
\* missing transaction, the recovery completes: the block is decompressed
\* again, update_recovered_block attaches its message to the placeholder (no
\* second push), the recovery record is cancelled, the hash is added to
\* blocks_seen and the list of recovered blocks is emptied.
C11_TxsCompleteRecovery ==
  \A h \in BlockHashes :
    (TxsHandled /\ WaitingForRecovery(h) /\ SuppliesEveryMissing(h)) => RecoveryCompleted(h)

\* C11, with the blockchain node connected: the recovery completes. With no
\* connection to the blockchain node the recovered block is discarded: nothing
\* is attached or pushed and the hash is not seen, yet the list of recovered
\* blocks is emptied.
C11_TxsCompleteRecoveryWithNode ==
  \A h \in BlockHashes :
    (TxsHandled /\ WaitingForRecovery(h) /\ SuppliesEveryMissing(h)) =>
       IF call.node_conn
       THEN RecoveryCompleted(h)
       ELSE /\ recovered_blocks = <<>>
            /\ blocks_seen = call.pre.blocks_seen
            /\ OutOps("update_recovered_block") = {}
            /\ OutOps("push") = {}

\* A txs message completed the recovery of a block whose short id was unknown.
C11_Witness ==
  \E h \in BlockHashes :
    /\ TxsHandled
    /\ call.node_conn
    /\ WaitingForRecovery(h)
    /\ SuppliesEveryMissing(h)
    /\ call.pre.recovery[h].unknown_short_ids # {}
    /\ RecoveryCompleted(h)

\* C12: every recovery record is destroyed in the end, whether or not a relay
\* answers the GetTxs request.
C12_RecoveryRecordDestroyed ==
  \A h \in BlockHashes : (h \in DOMAIN recovery) ~> (h \notin DOMAIN recovery)


(* ------------------------ transactions from relays --------------------- *)
\* A transaction relay connection handled a tx message.
TxHandled == call.fn = "msg_tx" /\ RELAY_TRANSACTION \in call.CONNECTION_TYPE

\* The messages the last handler sent to the blockchain node.
Forwarded == [i \in 1..Cardinality(OutOps("send_msg_to_node")) |->
                out[SetToSeq(OutOps("send_msg_to_node"))[i]].msg]

\* The handler found the contents of the transaction of the message.
KnewContents == has_transaction_contents(call.pre.tx_service, call.msg.tx_hash)

\* The transaction service keeps the contents it has: nothing is evicted and
\* the first contents of a hash stay.
ContentsKept ==
  \A t \in DOMAIN call.pre.tx_service.contents :
    /\ t \in DOMAIN tx_service.contents
    /\ tx_service.contents[t] = call.pre.tx_service.contents[t]

\* What every tx message does, whether or not the node is connected: only a
\* message that brings the first contents of its hash is forwarded, known
\* contents stay, and a message that brings a short id for a transaction whose
\* contents are known (scenario S1) binds the short id and is not forwarded.
TxForwardedAtMostOnce ==
  TxHandled =>
    /\ Forwarded # <<>> =>
         /\ ~KnewContents
         /\ call.msg.tx_val # EMPTY_TX_VAL
         /\ Forwarded = <<bx_tx_to_tx(call.msg)>>
    /\ ContentsKept
    /\ (KnewContents /\ call.msg.short_id # NULL_TX_SID) =>
         /\ has_short_id(tx_service, call.msg.short_id)
         /\ tx_service.sid_to_hash[call.msg.short_id] = call.msg.tx_hash
         /\ Forwarded = <<>>

\* C16: of the tx messages about one hash the first that carries contents is
\* forwarded to the blockchain node, and no other: the transaction is
\* forwarded exactly once. After S1 (contents without short id, then a short
\* id without contents) the hash is bound to the short id with the first
\* contents, and only the first message was forwarded.
C16_TxForwardedExactlyOnce ==
  /\ TxForwardedAtMostOnce
  /\ (TxHandled /\ ~KnewContents /\ call.msg.tx_val # EMPTY_TX_VAL) =>
       /\ Forwarded = <<bx_tx_to_tx(call.msg)>>
       /\ tx_service.contents[call.msg.tx_hash] = call.msg.tx_val

\* C16, for a gateway that may have no connection to the blockchain node: the
\* first message with contents is forwarded if the node is connected then, and
\* is not forwarded otherwise; its contents are stored in both cases, so no
\* later message is forwarded.
C16_TxForwardedOnceIfNodeConnected ==
  /\ TxForwardedAtMostOnce
  /\ (TxHandled /\ ~KnewContents /\ call.msg.tx_val # EMPTY_TX_VAL) =>
       /\ Forwarded = IF call.node_conn THEN <<bx_tx_to_tx(call.msg)>> ELSE <<>>
       /\ tx_service.contents[call.msg.tx_hash] = call.msg.tx_val

\* The second message of S1: a short id without contents, for a transaction
\* known by its contents only.
C16_Witness ==
  /\ TxHandled
  /\ KnewContents
  /\ get_short_ids(call.pre.tx_service, call.msg.tx_hash) = {}
  /\ call.msg.short_id # NULL_TX_SID
  /\ call.msg.tx_val = EMPTY_TX_VAL
  /\ get_short_ids(tx_service, call.msg.tx_hash) = {call.msg.short_id}
  /\ Forwarded = <<>>

\* The handler took the message for a duplicate.
Duplicate ==
  /\ TxHandled
  /\ call.msg.short_id = NULL_TX_SID
  /\ get_short_ids(call.pre.tx_service, call.msg.tx_hash) # {}
  /\ KnewContents

\* C17: a tx message without short id, for a transaction known with short id
\* and contents, is a duplicate: the duplicate counter is incremented and
\* nothing else happens; the transaction service is unchanged, the recovery
\* service is not consulted and nothing is sent to the blockchain node.
C17_DuplicateIgnored ==
  Duplicate =>
    /\ out = <<[op |-> "log_duplicate_transaction_from_relay"]>>
    /\ Pre = call.pre

\* A duplicate that carried contents, with the blockchain node connected.
C17_Witness == Duplicate /\ call.msg.tx_val # EMPTY_TX_VAL /\ call.node_conn


(* ------------------------------ role gating ---------------------------- *)
\* The last handler ran on a connection without the role of its message.
Gated ==
  \/ call.fn \in {"msg_tx", "msg_txs"} /\ RELAY_TRANSACTION \notin call.CONNECTION_TYPE
  \/ call.fn \in {"msg_broadcast", "msg_key"} /\ RELAY_BLOCK \notin call.CONNECTION_TYPE

\* C18: a tx or txs message on a connection without the RELAY_TRANSACTION
\* role, and a broadcast or key message on a connection without the
\* RELAY_BLOCK role, is logged and discarded: the transaction service, the
\* block processing, recovery and queuing state are unchanged, and nothing
\* else is done to the connection.
C18_WrongRoleDiscarded ==
  Gated =>
    /\ out = <<[op |-> "log_error", msg |-> call.msg]>>
    /\ Pre = call.pre

\* A key that would have opened a stored ciphertext came on a transaction
\* relay connection.
C18_Witness ==
  /\ call.fn = "msg_key"
  /\ Gated
  /\ HadCiphertext(call.msg.block_hash)
  /\ call.pre.in_progress_blocks[call.msg.block_hash].ciphertext.key = call.msg.key

(* -------------------------- transaction service ------------------------ *)
\* A transaction relay connection handled a tx or a txs message.
TxOrTxsHandled == TxHandled \/ TxsHandled

\* The short ids the handler found stay bound to the hashes they were bound to.
BindingsKept ==
  \A s \in DOMAIN call.pre.tx_service.sid_to_hash :
    /\ has_short_id(tx_service, s)
    /\ tx_service.sid_to_hash[s] = call.pre.tx_service.sid_to_hash[s]

\* The set of short ids of every hash contains what it contained.
ShortIdSetsKept ==
  \A t \in Hashes :
    get_short_ids(call.pre.tx_service, t) \subseteq get_short_ids(tx_service, t)

\* C21: after every tx or txs message a short id of the transaction service is
\* bound to exactly one hash, the set of short ids of a hash contains every
\* short id assigned to it, and a short id bound to a hash is never rebound to
\* another hash.
C21_ShortIdNeverRebound ==
  /\ \A s \in DOMAIN tx_service.sid_to_hash :
       /\ tx_service.sid_to_hash[s] \in Hashes
       /\ s \in get_short_ids(tx_service, tx_service.sid_to_hash[s])
  /\ TxOrTxsHandled => BindingsKept /\ ShortIdSetsKept

\* C22: contents attached to a hash are never changed by a later tx or txs
\* message, whether it brings the same contents or other contents: the later
\* write is ignored.
C22_FirstContentsWin ==
  TxOrTxsHandled => ContentsKept

\* A tx or txs message brought other contents for a hash whose contents were
\* known.
BroughtOtherContents ==
  \/ /\ TxHandled
     /\ KnewContents
     /\ call.msg.tx_val \notin {EMPTY_TX_VAL, call.pre.tx_service.contents[call.msg.tx_hash]}
  \/ /\ TxsHandled
     /\ \E i \in 1..Len(call.msg.txs) :
          /\ has_transaction_contents(call.pre.tx_service, call.msg.txs[i].tx_hash)
          /\ call.msg.txs[i].contents # call.pre.tx_service.contents[call.msg.txs[i].tx_hash]

C22_Witness == BroughtOtherContents /\ call.fn = "msg_txs"

(* ------------------- handshake with the Bitcoin node ------------------- *)
\* The messages for the node that the connection has written, in order.
WrittenNodeMessages == SelectSeq(btc_connection.outputbuf, LAMBDA m : m.type = "node")

\* C23: the connection enqueues version on construction; when the version of
\* the peer arrives the connection becomes established and enqueues verack,
\* and only then the messages queued for the node are written, in their
\* order, each once; afterwards the queue of the node is empty and the
\* connection is the node connection. No queued message is written before
\* verack.
C23_HandshakeOrdering ==
  /\ Head(btc_connection.outputbuf) = VersionBtcMessage
  /\ call.fn = "msg_version" =>
       /\ ESTABLISHED \in btc_connection.state
       /\ btc_connection.outputbuf =
            call.pre.btc_connection.outputbuf \o <<VerAckBtcMessage>>
              \o call.pre.node_msg_queue
       /\ node_msg_queue = <<>>
       /\ node_connection = BLOCKCHAIN_NODE
  /\ \A i \in Written(btc_connection, "node") :
       \E j \in Written(btc_connection, "verack") : j < i
  /\ WrittenNodeMessages \o node_msg_queue =
       [k \in 1..(Len(WrittenNodeMessages) + Len(node_msg_queue)) |-> NodeMessage(k)]

\* The version of the peer arrives while two messages wait for the node.
C23_Witness ==
  /\ call.fn = "msg_version"
  /\ ESTABLISHED \notin call.pre.btc_connection.state
  /\ Len(call.pre.node_msg_queue) >= 2
  /\ Len(WrittenNodeMessages) >= 2

(* ----------------- discovery of the Ethereum node's key ---------------- *)
\* The pong timeout that the alarm queue holds, if any.
PongAlarms == {k \in 1..Len(alarm_queue) : alarm_queue[k].fn = "_pong_timeout"}

\* C24: the discovery connection sends a ping on construction and arms the
\* pong timeout; when the timeout fires and no pong has been received the
\* connection is marked for close; when a pong has been received before, its
\* public key is recorded on the node and the timeout does not close the
\* connection.
C24_PongTimeout ==
  /\ call.fn = "EthNodeDiscoveryConnection" =>
       /\ discovery_connection.outputbuf = <<PingEthDiscoveryMessage>>
       /\ ~discovery_connection._pong_received
       /\ \E k \in PongAlarms : alarm_queue[k].due = now + DISCOVERY_PONG_TIMEOUT_SEC
  /\ call.fn = "msg_pong" =>
       /\ discovery_connection._pong_received
       /\ remote_public_key = call.public_key
  /\ call.fn = "_pong_timeout" =>
       /\ PongAlarms = {}
       /\ MARK_FOR_CLOSE \in discovery_connection.state
            <=> ~call.pre.discovery_connection._pong_received
       /\ call.pre.discovery_connection._pong_received =>
            remote_public_key \in PublicKeys
  /\ (Discovering /\ PongAlarms # {}) => MARK_FOR_CLOSE \notin discovery_connection.state

\* The timeout fires after a pong: the connection stays open.
C24_Witness ==
  /\ call.fn = "_pong_timeout"
  /\ call.pre.discovery_connection._pong_received
  /\ MARK_FOR_CLOSE \notin discovery_connection.state

(* ------------------ duplicate gateway connections: claims -------------- *)
\* The link a connection belongs to, named after the gateway that dialled it.
Link(n, fileno) == IF fileno = OUTBOUND THEN n ELSE Other(n)
ClosedLinks(n) == {Link(n, f) : f \in Disconnected(gateway_nodes[n])}
Simultaneous == \A n \in Nodes : DOMAIN gateway_nodes[n].connections = {INBOUND, OUTBOUND}
OutboundOrdering(n) == gateway_nodes[n].connections[OUTBOUND].ordering
HelloHandled == call.fn = "msg_hello"
\* The hello reached an inbound connection while an outbound connection is
\* registered under the announced port, with another ordering.
DuplicateFound ==
  /\ HelloHandled
  /\ LET G == call.pre.gateway_nodes[call.node]
     IN /\ ~G.connections[call.fileno].from_me
        /\ call.msg.ip = G.connections[call.fileno].peer_ip
        /\ call.msg.port \in DOMAIN G.connection_pool
        /\ G.connection_pool[call.msg.port] # call.fileno
        /\ G.connections[G.connection_pool[call.msg.port]].from_me
        /\ G.connections[G.connection_pool[call.msg.port]].ordering # call.msg.ordering

\* C25: an inbound connection that handles a hello for a port an outbound
\* connection is registered under disconnects exactly one of the two: the
\* outbound one if the hello's ordering is greater than the outbound
\* connection's, itself if it is smaller; the pool then has the survivor
\* under the announced port.
C25_DuplicateResolution ==
  DuplicateFound =>
    LET G == call.pre.gateway_nodes[call.node]
        existing == G.connection_pool[call.msg.port]
        loser == IF call.msg.ordering > G.connections[existing].ordering
                 THEN existing ELSE call.fileno
        survivor == IF loser = existing THEN call.fileno ELSE existing
    IN /\ gateway_nodes[call.node].disconnects = Append(G.disconnects, loser)
       /\ gateway_nodes[call.node].connection_pool[call.msg.port] = survivor

C25_Witness ==
  /\ DuplicateFound
  /\ gateway_nodes[call.node].disconnects = <<OUTBOUND>>
  /\ gateway_nodes[call.node].connection_pool[call.msg.port] = INBOUND

\* C26: two gateways that dialled each other with distinct orderings close
\* the same link: the one with the larger outbound ordering disconnects
\* nothing but its inbound connection and the other nothing but its outbound
\* connection, and when no hello is left both have done so.
C26_SameLinkClosed ==
  (Simultaneous /\ OutboundOrdering("main") # OutboundOrdering("peer")) =>
    LET larger == IF OutboundOrdering("main") > OutboundOrdering("peer")
                  THEN "main" ELSE "peer"
    IN /\ gateway_nodes[larger].disconnects \in {<<>>, <<INBOUND>>}
       /\ gateway_nodes[Other(larger)].disconnects \in {<<>>, <<OUTBOUND>>}
       /\ hellos = {} => /\ gateway_nodes[larger].disconnects = <<INBOUND>>
                         /\ gateway_nodes[Other(larger)].disconnects = <<OUTBOUND>>

C26_Witness ==
  /\ Simultaneous
  /\ OutboundOrdering("main") > OutboundOrdering("peer")
  /\ hellos = {}
  /\ gateway_nodes["main"].disconnects = <<INBOUND>>
  /\ gateway_nodes["peer"].disconnects = <<OUTBOUND>>

\* The hello reached an inbound connection while an outbound connection with
\* the very ordering it announces is registered under the announced port.
EqualFound ==
  /\ HelloHandled
  /\ LET G == call.pre.gateway_nodes[call.node]
     IN /\ ~G.connections[call.fileno].from_me
        /\ call.msg.port \in DOMAIN G.connection_pool
        /\ G.connection_pool[call.msg.port] # call.fileno
        /\ G.connections[G.connection_pool[call.msg.port]].ordering = call.msg.ordering
OrderingsInUse(gateways) ==
  UNION {{gateways[n].connections[f].ordering : f \in DOMAIN gateways[n].connections} :
           n \in Nodes}
\* The inbound connection disconnected nothing and sent one new hello, which
\* has an ordering no connection had.
RetrySent ==
  /\ \A n \in Nodes : gateway_nodes[n].disconnects = call.pre.gateway_nodes[n].disconnects
  /\ \E m \in hellos \ call.pre.hellos :
       /\ hellos \ call.pre.hellos = {m}
       /\ m.node = Other(call.node)
       /\ m.msg.port = Port(call.node)
       /\ m.msg.ordering \notin OrderingsInUse(call.pre.gateway_nodes)
       /\ m.msg.ordering = gateway_nodes[call.node].connections[call.fileno].ordering
EqualOrderings == Simultaneous /\ OutboundOrdering("main") = OutboundOrdering("peer")
\* An outbound connection handled the new hello after the inbound connection
\* of its gateway had taken the place under the announced port.
RetryCompared ==
  /\ HelloHandled
  /\ LET G == call.pre.gateway_nodes[call.node]
     IN /\ G.connections[call.fileno].from_me
        /\ G.connection_pool[call.msg.port] # call.fileno

\* C27 as claimed: with equal orderings an inbound connection disconnects
\* nothing and sends exactly one new hello with a fresh ordering, and when
\* the new hellos have been handled both gateways have closed the same link.
C27_BothCloseSameLink ==
  EqualOrderings =>
    /\ EqualFound => RetrySent
    /\ hellos = {} => \E l \in Nodes : \A n \in Nodes : ClosedLinks(n) = {l}

\* C27 amended: with equal orderings an inbound connection disconnects nothing
\* and sends exactly one new hello with a fresh ordering; no two disconnects,
\* on either side, concern different links; an outbound connection that
\* handles the new hello after the inbound connection of its gateway handled
\* the first one disconnects one of the two; and when the new hellos have
\* been handled at least one gateway has closed the link.
C27_OneLinkClosed ==
  EqualOrderings =>
    /\ EqualFound => RetrySent
    /\ Cardinality(UNION {ClosedLinks(n) : n \in Nodes}) <= 1
    /\ RetryCompared =>
         Len(gateway_nodes[call.node].disconnects) =
           Len(call.pre.gateway_nodes[call.node].disconnects) + 1
    /\ hellos = {} => \E n \in Nodes : ClosedLinks(n) # {}

C27_Witness ==
  /\ EqualOrderings
  /\ hellos = {}
  /\ ClosedLinks("main") = {"peer"}
  /\ ClosedLinks("peer") = {"peer"}
  /\ gateway_nodes["main"].connections[INBOUND].ordering # NULL_ORDERING
  /\ gateway_nodes["peer"].connections[INBOUND].ordering # NULL_ORDERING

(* ----------------------- hold timeout: claim --------------------------- *)
PendingAlarms == {alarm_queue[k].id : k \in 1..Len(alarm_queue)}

\* C28: the hold of a block ends when its timeout fires: after
\* _holding_timeout for a hash there is no hold for it, and a block handed to
\* queue_block_for_processing is never left on a hold whose alarm is not
\* pending.
C28_HoldEndsAtTimeout ==
  /\ call.fn = "_holding_timeout" => call.block_hash \notin DOMAIN holds
  /\ call.fn = "queue_block_for_processing" =>
       (call.block_hash \in DOMAIN holds => holds[call.block_hash].alarm \in PendingAlarms)

(* ----------------------- recovery retries: claim ----------------------- *)
\* The retry alarms the handler registered.
NewRetryAlarms ==
  {k \in 1..Len(alarm_queue) :
     /\ alarm_queue[k].fn = "_trigger_recovery_retry"
     /\ \A j \in 1..Len(call.pre.alarm_queue) : call.pre.alarm_queue[j].id # alarm_queue[k].id}

\* Every retry that msg_txs scheduled is for a block awaiting recovery with
\* fewer attempts than the maximum, and waits the interval of its attempts.
RetryDelayByAttempts ==
  call.fn = "msg_txs" =>
    \A k \in NewRetryAlarms :
       LET block_hash == alarm_queue[k].block_hash
           attempts == recovery_attempts(St, block_hash)
       IN /\ block_hash \in DOMAIN recovery
          /\ attempts < BLOCK_RECOVERY_MAX_RETRY_ATTEMPTS
          /\ alarm_queue[k].due = now + BLOCK_RECOVERY_RECOVERY_INTERVAL_S[attempts + 1]

\* The GetTxs messages that the handler broadcast.
GetTxsSent == {k \in 1..Len(out) : out[k].op = "broadcast" /\ out[k].msg.type = "gettxs"}

\* The short ids the block misses now: those of its record without a hash,
\* and those of the hashes of its record without contents.
StillMissing(block_hash) ==
  IF block_hash \notin DOMAIN recovery THEN {}
  ELSE recovery[block_hash].unknown_short_ids \cup
       {get_short_id(tx_service, h) : h \in recovery[block_hash].unknown_transaction_hashes}

RetryFired == call.fn = "_trigger_recovery_retry"

\* A retry that fires adds one to the attempts of its block.
RetryCountsOne ==
  RetryFired =>
    recovery_attempts(St, call.block_hash) =
      (IF call.block_hash \in DOMAIN call.pre.recovery_attempts_by_block
       THEN call.pre.recovery_attempts_by_block[call.block_hash] ELSE 0) + 1

\* A retry that fires sends one GetTxs, to the relay-transaction peers, with
\* short ids the block still misses.
RetryAsksForMissing ==
  RetryFired =>
    /\ Cardinality(GetTxsSent) = 1
    /\ \A k \in GetTxsSent :
         /\ out[k].to = Recipients(NoConn, {RELAY_TRANSACTION})
         /\ Range(out[k].msg.short_ids) \subseteq StillMissing(call.block_hash)

\* C29: a retry scheduled for a block with n attempts waits
\* BLOCK_RECOVERY_RECOVERY_INTERVAL_S[n]; a retry that fires adds exactly one
\* to the attempts of its block and sends a GetTxs to the relay-transaction
\* peers with only the short ids the block still misses.
C29_RetrySchedule ==
  /\ RetryDelayByAttempts
  /\ RetryCountsOne
  /\ RetryAsksForMissing

(* --------------------- conversion failure: claim ----------------------- *)
\* A broadcast with a bx-block that bx_block_to_block rejects was handled
\* while the blockchain node is connected.
ConversionFailed ==
  /\ call.fn = "process_block_broadcast"
  /\ call.node_conn
  /\ bx_block_to_block(call.bx_block, call.pre.tx_service).error

\* C30: when the decompression of a bx-block fails with a conversion error
\* the block is dropped and the recovery state of its hash evicted: nothing
\* of it is pushed to or left waiting in the queuing service, no recovery
\* record of it remains, it is not added to blocks_seen and no GetTxs is sent.
C30_ConversionFailureEvicts ==
  ConversionFailed =>
    /\ \A i \in 1..Len(block_queue) :
         block_queue[i].block_hash = call.block_hash => ~block_queue[i].waiting_for_recovery
    /\ call.block_hash \notin DOMAIN recovery
    /\ call.block_hash \in blocks_seen => call.block_hash \in call.pre.blocks_seen
    /\ \A k \in 1..Len(out) :
         /\ out[k].op # "push"
         /\ out[k].op = "broadcast" => out[k].msg.type # "gettxs"

(* ------------------- recovery records: claims -------------------------- *)
\* A handler that found the state call.pre has run.
Handled == "pre" \in DOMAIN call /\ "recovery" \in DOMAIN call.pre

\* C31: as long as a recovery record exists, its unknown short ids and its
\* unknown transaction hashes only shrink: no handler leaves a record that
\* it found with an unknown the record did not have.
C31_UnknownsOnlyShrink ==
  Handled =>
    \A h \in DOMAIN call.pre.recovery \cap DOMAIN recovery :
       /\ recovery[h].unknown_short_ids \subseteq call.pre.recovery[h].unknown_short_ids
       /\ recovery[h].unknown_transaction_hashes \subseteq
            call.pre.recovery[h].unknown_transaction_hashes

\* C33: a block handled again as recovered decompresses: no tx or txs message
\* makes _handle_decrypted_block start a recovery (add_block) again.
C33_RecoveredBlockDecompresses ==
  call.fn \in {"msg_tx", "msg_txs"} =>
    \A k \in 1..Len(out) : out[k].op # "add_block"

(* ------------------ retry after a tx message: claim -------------------- *)
\* The tx message advanced a recovery: its short id was an unknown of a
\* record, or its contents were stored and its hash was an unknown of a record.
Advanced ==
  \/ /\ call.msg.short_id # NULL_TX_SID
     /\ \E h \in DOMAIN call.pre.recovery :
          call.msg.short_id \in call.pre.recovery[h].unknown_short_ids
  \/ /\ call.msg.tx_val # EMPTY_TX_VAL
     /\ ~KnewContents
     /\ \E h \in DOMAIN call.pre.recovery :
          call.msg.tx_hash \in call.pre.recovery[h].unknown_transaction_hashes

\* What _handle_decrypted_block leaves in out, one per call: the block is
\* tracked (decompressed or seen), needs a recovery, or fails to convert.
Rehandled ==
  {k \in 1..Len(out) :
     out[k].op \in {"track_seen_short_ids", "add_block", "on_block_cleaned_up"}}

\* The record of h had unknowns and the tx message brought the last of them.
CompletedBy(h) ==
  LET info == call.pre.recovery[h]
      left_sids == info.unknown_short_ids \ {call.msg.short_id}
      left_hashes == IF call.msg.tx_val # EMPTY_TX_VAL /\ ~KnewContents
                     THEN info.unknown_transaction_hashes \ {call.msg.tx_hash}
                     ELSE info.unknown_transaction_hashes
  IN /\ ~is_block_recovered(info)
     /\ left_sids = {} /\ left_hashes = {}

\* C32: in msg_tx the recovered blocks are retried only if the message
\* advanced a recovery, once (each block the message completed is handled
\* again exactly once and none stays in the list), and after the short id was
\* assigned and the contents stored: the retry comes after the checks and
\* decompresses with what the message brought.
C32_RetryIffAdvanced ==
  TxHandled =>
    /\ recovered_blocks = <<>>
    /\ Rehandled # {} => Advanced
    /\ \A k \in Rehandled :
         \A j \in OutOps("check_missing_sid") \cup OutOps("check_missing_tx_hash") : j < k
    /\ \A h \in DOMAIN call.pre.recovery :
         CompletedBy(h) =>
           /\ Cardinality({k \in Rehandled : out[k].block_hash = h}) = 1
           /\ bx_block_to_block(call.pre.recovery[h].bx_block, tx_service).block_message # NoMsg
                => RecoveryCompleted(h)

C32_Witness ==
  /\ TxHandled
  /\ call.msg.tx_val # EMPTY_TX_VAL
  /\ \E h \in DOMAIN call.pre.recovery :
       /\ call.pre.recovery[h].unknown_short_ids = {call.msg.short_id}
       /\ CompletedBy(h)
       /\ RecoveryCompleted(h)

(* ------------------------------ C34 ---------------------------------- *)
\* The hashes of the message the handler was called with that were not in
\* blocks_seen, in the order of the message.
Announced == [i \in 1..Len(call.msg) |-> call.msg[i].block_hash]
Unseen == SelectSeq(Announced, LAMBDA h : h \notin call.pre.blocks_seen)
SentToNode == [i \in 1..Cardinality(OutOps("send_msg_to_node")) |->
                 out[CHOOSE k \in OutOps("send_msg_to_node") :
                       Cardinality({j \in OutOps("send_msg_to_node") : j <= k}) = i].msg]

\* C34: on a new_block_hashes message every announced hash that is not in
\* blocks_seen gets a pending entry without header and body and with the
\* announced number, and is asked for twice: the header requests go out in the
\* order of the message, one per hash, and after them one body request that
\* lists these hashes; a hash in blocks_seen gets no pending entry and is named
\* in no request, and when every hash is seen nothing is sent and nothing
\* recorded.
C34_HeaderThenBodyRequests ==
  Called("msg_new_block_hashes") =>
    /\ \A h \in Range(Unseen) :
         /\ h \in DOMAIN eth_protocol._pending_new_blocks_parts
         /\ eth_protocol._pending_new_blocks_parts[h] =
              NewBlockParts(NoBytes, NoBytes, BlockNumber(h))
    /\ \A h \in Hashes \ Range(Unseen) :
         /\ h \in DOMAIN eth_protocol._pending_new_blocks_parts
              <=> h \in DOMAIN call.pre.eth_protocol._pending_new_blocks_parts
         /\ h \in DOMAIN eth_protocol._pending_new_blocks_parts =>
              eth_protocol._pending_new_blocks_parts[h] =
                call.pre.eth_protocol._pending_new_blocks_parts[h]
    /\ IF Unseen = <<>>
       THEN /\ SentToNode = <<>>
            /\ eth_protocol = call.pre.eth_protocol
       ELSE /\ SentToNode =
                 [i \in 1..Len(Unseen) |->
                    GetBlockHeadersEthProtocolMessage(Unseen[i], 1, 0, FALSE)]
                 \o <<GetBlockBodiesEthProtocolMessage(Unseen)>>
            /\ eth_protocol._block_bodies_requests =
                 Append(call.pre.eth_protocol._block_bodies_requests, Unseen)

\* A message that announces a block the gateway has seen and one it has not.
C34_Witness ==
  /\ Called("msg_new_block_hashes")
  /\ Len(call.msg) = 2
  /\ call.msg[1].block_hash \in call.pre.blocks_seen
  /\ call.msg[2].block_hash \notin call.pre.blocks_seen
  /\ Len(SentToNode) = 2

(* --------------------------- C35 and C39 ------------------------------ *)
Submissions == OutOps("queue_block_for_processing")
PrePending == call.pre.eth_protocol._pending_new_blocks_parts

\* The parts of the pending entries once the message of the call is recorded.
PartsAfter ==
  [h \in DOMAIN PrePending |->
     IF Called("msg_block_headers") /\ Len(call.msg) = 1 /\ keccak_hash(call.msg[1]) = h
     THEN [PrePending[h] EXCEPT !.block_header_bytes = call.msg[1]]
     ELSE IF /\ Called("msg_block_bodies")
             /\ call.pre.eth_protocol._block_bodies_requests # <<>>
             /\ Len(Head(call.pre.eth_protocol._block_bodies_requests)) = Len(call.msg)
             /\ h \in Range(Head(call.pre.eth_protocol._block_bodies_requests))
          THEN [PrePending[h] EXCEPT !.block_body_bytes = BlockBody(h)]
          ELSE PrePending[h]]

\* The blocks whose second part the message of the call brought.
Completed ==
  {h \in DOMAIN PrePending :
     /\ PartsAfter[h] # PrePending[h]
     /\ PartsAfter[h].block_header_bytes # NoBytes
     /\ PartsAfter[h].block_body_bytes # NoBytes}

\* C35: a block announced by hash is submitted to the block processing service
\* only with both its header and its body, whichever came first, and at most
\* once; the message that completes a block removes its pending entry, and
\* submits the block if and only if its timestamp is valid.
C35_SubmittedOnceWhenComplete ==
  /\ Submissions # {} => Called("msg_block_headers") \/ Called("msg_block_bodies")
  /\ \A i \in Submissions :
       /\ out[i].parts.block_header_bytes # NoBytes
       /\ out[i].parts.block_body_bytes # NoBytes
       /\ out[i].block_message.block_hash \in DOMAIN PrePending
       /\ \A j \in Submissions :
            out[j].block_message.block_hash = out[i].block_message.block_hash => j = i
  /\ Called("msg_block_headers") \/ Called("msg_block_bodies") =>
       \A h \in Completed :
         /\ h \notin DOMAIN eth_protocol._pending_new_blocks_parts
         /\ is_valid_block_timestamp(from_new_block_parts(PartsAfter[h]))
              <=> \E i \in Submissions : out[i].block_message.block_hash = h

\* C39: _process_ready_new_blocks never takes a hash from the ready queue that
\* has no pending entry (KeyError) or whose entry lacks a part (TypeError), and
\* no hash is in the ready queue twice.
C39_ReadyHashIsPending ==
  /\ OutOps("KeyError") = {}
  /\ OutOps("TypeError") = {}
  /\ eth_protocol._ready_new_blocks = <<>>

(* ------------------------------ C36 ---------------------------------- *)
\* A block was queued for a hash whose hold had an alarm already.
QueuedOnArmedHold ==
  /\ Called("queue_block_for_processing")
  /\ call.block_hash \in DOMAIN call.pre.holds
  /\ call.pre.holds[call.block_hash].alarm # NoAlarm

\* C36: at most one hold-timeout alarm is pending for a block hash at any time;
\* a block queued while the hold of its hash has an alarm arms no alarm and
\* leaves the hold, with its stored block message and connection, as it was.
C36_OneHoldAlarmPerHash ==
  /\ \A h \in Hashes : Cardinality(HoldAlarms(alarm_queue, h)) <= 1
  /\ QueuedOnArmedHold =>
       /\ alarm_queue = call.pre.alarm_queue
       /\ holds = call.pre.holds
       /\ out = <<>>

(* ------------------------------ C37 ---------------------------------- *)
\* The retry alarm of a block fired whose recovery had ended: the recovery
\* service had no record of the block any more.
LateRetryFired ==
  /\ RetryFired
  /\ call.block_hash \notin DOMAIN call.pre.recovery

\* C37: a recovery-retry alarm that fires after the recovery of its block has
\* ended (the block was recovered, or its recovery was cancelled) has no
\* effect: the attempt counters stay as they were and no GetTxs is sent.
C37_LateRetryHasNoEffect ==
  LateRetryFired =>
    /\ recovery_attempts_by_block = call.pre.recovery_attempts_by_block
    /\ GetTxsSent = {}
    /\ out = <<>>

(* ------------------------------ C38 ---------------------------------- *)
RetryAlarms(q, h) ==
  {k \in 1..Len(q) : q[k].fn = "_trigger_recovery_retry" /\ q[k].block_hash = h}

\* C38: whatever txs messages arrive and alarms fire, at most one retry alarm
\* is pending for a block, the attempts of a block never exceed
\* BLOCK_RECOVERY_MAX_RETRY_ATTEMPTS, so that at most that many retries ask for
\* its transactions, and a retry is only scheduled with attempts that index
\* BLOCK_RECOVERY_RECOVERY_INTERVAL_S.
C38_BoundedRetries ==
  /\ \A h \in BlockHashes : Cardinality(RetryAlarms(alarm_queue, h)) <= 1
  /\ \A h \in DOMAIN recovery_attempts_by_block :
       recovery_attempts_by_block[h] <= BLOCK_RECOVERY_MAX_RETRY_ATTEMPTS
  /\ call.fn = "msg_txs" =>
       \A k \in NewRetryAlarms :
         recovery_attempts(St, alarm_queue[k].block_hash) \in
           0..(BLOCK_RECOVERY_MAX_RETRY_ATTEMPTS - 1)

(* ------------------------------ C40 ---------------------------------- *)
QueuedHashes(q) == {q[i].block_hash : i \in 1..Len(q)}

\* A block relay delivered an unencrypted bx-block, the blockchain node being connected,
\* for a block that has an entry in the queuing service and was not seen.
CopyOfQueuedBlock ==
  /\ Called("msg_broadcast")
  /\ ~call.msg.is_encrypted
  /\ call.node_conn
  /\ RELAY_BLOCK \in call.CONNECTION_TYPE
  /\ call.msg.block_hash \in QueuedHashes(call.pre.block_queue)
  /\ call.msg.block_hash \notin call.pre.blocks_seen
  /\ ~bx_block_to_block(call.msg.blob, call.pre.tx_service).error

CompleteCopy == bx_block_to_block(call.msg.blob, call.pre.tx_service).block_message # NoMsg

\* C40: the queuing service has at most one entry for a block hash: a push is
\* for a hash that has no entry; a complete copy of a block that has a
\* placeholder is attached to it with update_recovered_block; an incomplete
\* copy of a queued block adds no placeholder, leaves the recovery records as
\* they are and sends no GetTxs.
C40_OneQueueEntryPerHash ==
  /\ \A i, j \in 1..Len(block_queue) :
       block_queue[i].block_hash = block_queue[j].block_hash => i = j
  /\ \A i \in OutOps("push") :
       /\ out[i].block_hash \notin QueuedHashes(call.pre.block_queue)
       /\ \A j \in OutOps("push") : out[j].block_hash = out[i].block_hash => j = i
  /\ CopyOfQueuedBlock =>
       /\ OutOps("push") = {}
       /\ IF CompleteCopy
          THEN /\ \E i \in OutOps("update_recovered_block") :
                    /\ out[i].block_hash = call.msg.block_hash
                    /\ out[i].block_msg =
                         bx_block_to_block(call.msg.blob, call.pre.tx_service).block_message
               /\ \E i \in 1..Len(block_queue) :
                    /\ block_queue[i].block_hash = call.msg.block_hash
                    /\ ~block_queue[i].waiting_for_recovery
          ELSE /\ OutOps("add_block") = {}
               /\ GetTxsSent = {}
               /\ recovery = call.pre.recovery
               /\ block_queue = call.pre.block_queue

\* A second incomplete copy of a block whose placeholder waits for recovery.
C40_Witness ==
  /\ CopyOfQueuedBlock
  /\ ~CompleteCopy
  /\ Len(block_queue) = 1
  /\ block_queue[1].waiting_for_recovery

====
